---------------------------- MODULE Spec2Model ----------------------------
(* Webhook receiver of whatsapp-go (src/webhook.go): method dispatch,     *)
(* subscription challenge, HMAC signature verification, JSON decoding,    *)
(* handler dispatch and the error hook.                                   *)
(* Strings and byte slices are sequences of one-character strings.        *)
EXTENDS Integers, Sequences, FiniteSets, TLC

VARIABLES wh, pc, req, body, sigOK, request, w, calls, hook, handled, depth, trace,
          other, lib

vars == <<wh, pc, req, body, sigOK, request, w, calls, hook, handled, depth, trace,
          other, lib>>

-----------------------------------------------------------------------------
(* Bounds *)

\* longest request body, in bytes
MaxBodyLen == 2
\* frames of HandleWebhookErr the goroutine stack holds before the runtime
\* stops the process with "stack overflow"
MaxStack == 3
\* most tokens in a text passed to FromHTML
MaxTokens == 4

-----------------------------------------------------------------------------
(* String literals of the source *)

Sha256Prefix == <<"s","h","a","2","5","6","=">>
Sha1Prefix == <<"s","h","a","1","=">>
Subscribe == <<"s","u","b","s","c","r","i","b","e">>
MsgReadBody == <<"F","a","i","l","e","d"," ","t","o"," ","r","e","a","d"," ","r","e","q","u","e","s","t"," ","b","o","d","y">>
MsgInvalidSignature == <<"I","n","v","a","l","i","d"," ","s","i","g","n","a","t","u","r","e">>
MsgParseBody == <<"F","a","i","l","e","d"," ","t","o"," ","p","a","r","s","e"," ","r","e","q","u","e","s","t"," ","b","o","d","y">>

StatusOK == 200
StatusBadRequest == 400
StatusForbidden == 403
StatusMethodNotAllowed == 405

-----------------------------------------------------------------------------
(* Input alphabets *)

BodyBytes == {"{", "}"}
Bodies == UNION {[1..n -> BodyBytes] : n \in 0..MaxBodyLen}
Secrets == {<<>>, <<"k">>}
HashFuncs == {"sha256", "sha1"}
ErrHandlers == {"self", "nil", "host"}

\* the lexemes of the documents, "{" and "}" apart
Lexemes ==
    <<
    "object", ":", "whatsapp_business_account", ",", "entry", "[", "id", "1",
    "changes", "field", "messages", "value", "messaging_product", "whatsapp",
    "metadata", "display_phone_number", "phone_number_id", "2", "from",
    "123", "m1", "timestamp", "1000", "type", "text", "body", "hi", "]",
    "contacts", "statuses", "errors", "null", "some_future_type", "version",
    "5", "future", "a", "true", "preview", "false", "extra", "x", "Entry",
    "none", "m2", "1001", "image", "img1", "mime_type", "image/jpeg",
    "sha256", "abc", "m0", "status", "failed", "999", "recipient_id", "code",
    "131000", "title", "oops", "3">>

\* a code below 256 for each of them, apart from the ASCII codes
LexemeCode == [c \in {Lexemes[i] : i \in 1..Len(Lexemes)} |->
                  127 + CHOOSE i \in 1..Len(Lexemes) : Lexemes[i] = c]

\* ASCII code of the characters that occur in bodies and secrets; a lexeme
\* of a document stands for its bytes and has a code of its own
ByteOf(c) ==
    CASE c = "{" -> 123 [] c = "}" -> 125 [] c = "k" -> 107 [] c = "z" -> 122
      [] OTHER -> IF c \in DOMAIN LexemeCode THEN LexemeCode[c] ELSE 0

BytesOf(s) == [i \in 1..Len(s) |-> ByteOf(s[i])]

-----------------------------------------------------------------------------
(* Library functions the handlers call *)

HexDigits == <<"0","1","2","3","4","5","6","7","8","9","a","b","c","d","e","f">>

\* hex.EncodeToString: two lowercase hexadecimal digits per byte
EncodeToString(bytes) ==
    [i \in 1..(2 * Len(bytes)) |->
        LET b == bytes[(i + 1) \div 2] IN
        IF i % 2 = 1 THEN HexDigits[(b \div 16) + 1] ELSE HexDigits[(b % 16) + 1]]

\* hmac.New(hashFunc, key); mac.Write(body); mac.Sum(nil): a keyed digest,
\* taken collision-free: the digest determines hash function, key and body
hmacSum(hashFunc, key, data) ==
    <<(IF hashFunc = "sha256" THEN 32 ELSE 20), Len(key)>> \o BytesOf(key) \o BytesOf(data)

\* hmac.Equal replaced by a comparison of the common prefix
hmacEqualPrefix(a, b) ==
    \A i \in 1..(IF Len(a) < Len(b) THEN Len(a) ELSE Len(b)) : a[i] = b[i]

\* hmac.Equal: constant-time comparison, true iff both slices hold the same bytes
hmacEqual(a, b) == Len(a) = Len(b) /\ \A i \in 1..Len(a) : a[i] = b[i]

\* strings.CutPrefix
CutPrefix(s, prefix) ==
    IF Len(s) >= Len(prefix) /\ SubSeq(s, 1, Len(prefix)) = prefix
    THEN [after |-> SubSeq(s, Len(prefix) + 1, Len(s)), found |-> TRUE]
    ELSE [after |-> s, found |-> FALSE]

\* http.Header.Get and url.Values.Get: first value of the key, "" if absent
Get(values) == IF values = <<>> THEN <<>> ELSE values[1]

\* http.ResponseWriter.WriteHeader: only the first call sets the status
WriteHeader(rw, code) == IF rw.status = 0 THEN [rw EXCEPT !.status = code] ELSE rw

\* http.ResponseWriter.Write: implies WriteHeader(200) when no status was set
Write(rw, bytes) ==
    [WriteHeader(rw, StatusOK) EXCEPT !.body = rw.body \o bytes]

\* http.Error: WriteHeader(code), then the message and a newline
HttpError(rw, msg, code) == Write(WriteHeader(rw, code), msg \o <<"\n">>)

-----------------------------------------------------------------------------
(* encoding/json as json.Unmarshal(body, &request) uses it.                *)
(* A body is a sequence of lexemes: the punctuation of JSON, the literals  *)
(* true, false and null, number literals, and string literals, written     *)
(* without their quotes. A lexeme that is none of the others is a string.  *)

Punctuation == {"{", "}", "[", "]", ":", ","}
BoolLits == {"true", "false"}
NumberLits == {"5", "131000"}
IsStringLit(t) == t \notin Punctuation \cup BoolLits \cup NumberLits \cup {"null"}
\* strconv.ParseInt of the number literals
IntOf(lit) == CASE lit = "5" -> 5 [] lit = "131000" -> 131000 [] OTHER -> 0

JNull == [t |-> "null"]
JBool(b) == [t |-> "bool", b |-> b]
JNumber(lit) == [t |-> "number", lit |-> lit]
JString(s) == [t |-> "string", s |-> s]
JArray(elems) == [t |-> "array", elems |-> elems]
JObject(members) == [t |-> "object", members |-> members]

ParseFail == [ok |-> FALSE, val |-> JNull, next |-> 0]
ParseOK(val, next) == [ok |-> TRUE, val |-> val, next |-> next]

RECURSIVE ParseValue(_, _), ParseMembers(_, _, _), ParseElems(_, _, _)

\* the JSON value that starts at lexeme i, and where it ends
ParseValue(toks, i) ==
    IF i > Len(toks) THEN ParseFail
    ELSE LET t == toks[i] IN
         CASE t = "{" ->
                IF i < Len(toks) /\ toks[i + 1] = "}"
                THEN ParseOK(JObject(<<>>), i + 2)
                ELSE ParseMembers(toks, i + 1, <<>>)
           [] t = "[" ->
                IF i < Len(toks) /\ toks[i + 1] = "]"
                THEN ParseOK(JArray(<<>>), i + 2)
                ELSE ParseElems(toks, i + 1, <<>>)
           [] t \in {"}", "]", ":", ","} -> ParseFail
           [] t = "null" -> ParseOK(JNull, i + 1)
           [] t \in BoolLits -> ParseOK(JBool(t = "true"), i + 1)
           [] t \in NumberLits -> ParseOK(JNumber(t), i + 1)
           [] OTHER -> ParseOK(JString(t), i + 1)

\* the members of an object from lexeme i on: key, colon, value, then a
\* comma and more members, or the closing brace
ParseMembers(toks, i, acc) ==
    IF i + 1 > Len(toks) THEN ParseFail
    ELSE IF ~IsStringLit(toks[i]) \/ toks[i + 1] # ":" THEN ParseFail
    ELSE LET v == ParseValue(toks, i + 2) IN
         IF ~v.ok THEN ParseFail
         ELSE IF v.next > Len(toks) THEN ParseFail
         ELSE LET members == Append(acc, [key |-> toks[i], val |-> v.val]) IN
              IF toks[v.next] = "}" THEN ParseOK(JObject(members), v.next + 1)
              ELSE IF toks[v.next] = "," THEN ParseMembers(toks, v.next + 1, members)
              ELSE ParseFail

\* the elements of an array from lexeme i on
ParseElems(toks, i, acc) ==
    LET v == ParseValue(toks, i) IN
    IF ~v.ok THEN ParseFail
    ELSE IF v.next > Len(toks) THEN ParseFail
    ELSE LET elems == Append(acc, v.val) IN
         IF toks[v.next] = "]" THEN ParseOK(JArray(elems), v.next + 1)
         ELSE IF toks[v.next] = "," THEN ParseElems(toks, v.next + 1, elems)
         ELSE ParseFail

\* json.checkValid: the whole input is one JSON value
checkValid(data) ==
    LET p == ParseValue(data, 1) IN p.ok /\ p.next = Len(data) + 1

(* Go types as the decoder sees them through reflection *)

StringT == [k |-> "string"]
IntT == [k |-> "int"]
FloatT == [k |-> "float"]
BoolT == [k |-> "bool"]
SliceOf(elem) == [k |-> "slice", elem |-> elem]
PtrTo(elem) == [k |-> "ptr", elem |-> elem]
\* a struct field: its Go name, the key of its json tag, its type
Field(name, key, type) == [name |-> name, key |-> key, type |-> type]
StructOf(fields) == [k |-> "struct", fields |-> fields]

\* a nil slice and a slice with a backing array; a nil pointer and a
\* pointer to a value
NilSlice == [nil |-> TRUE, items |-> <<>>]
\* an empty array decoded as a nil slice
MakeSliceNilIfEmpty(items) == [nil |-> items = <<>>, items |-> items]
MakeSlice(items) == [nil |-> FALSE, items |-> items]
NilPtr == [nil |-> TRUE]
AddrOf(val) == [nil |-> FALSE, val |-> val]

RECURSIVE Zero(_)
\* the zero value of a type
Zero(T) ==
    CASE T.k = "string" -> ""
      [] T.k = "int" -> 0
      [] T.k = "float" -> "0"
      [] T.k = "bool" -> FALSE
      [] T.k = "slice" -> NilSlice
      [] T.k = "ptr" -> NilPtr
      [] OTHER ->
           [n \in {T.fields[i].name : i \in 1..Len(T.fields)} |->
               Zero(T.fields[CHOOSE i \in 1..Len(T.fields) : T.fields[i].name = n].type)]

\* the case folding of the keys that occur in other case than their tag
ToLower(s) == CASE s = "Entry" -> "entry" [] OTHER -> s

\* the field an object key is stored in: the one whose tag is the key, else
\* the first whose tag equals it under case folding, else none (0)
FieldFor(T, key) ==
    LET n == Len(T.fields)
        exact == {i \in 1..n : T.fields[i].key = key}
        fold == {i \in 1..n : ToLower(T.fields[i].key) = ToLower(key)}
    IN  IF exact # {} THEN CHOOSE i \in exact : \A j \in exact : i <= j
        ELSE IF fold # {} THEN CHOOSE i \in fold : \A j \in fold : i <= j
        ELSE 0

RECURSIVE decodeValue(_, _, _), decodeObject(_, _, _, _, _)

\* decodeState.value: store the JSON value j in a variable of type T that
\* holds cur. A value of the wrong kind is an UnmarshalTypeError: the
\* variable is left as it is and decoding goes on; err tells that one
\* occurred
decodeValue(T, j, cur) ==
    IF j.t = "null"
    THEN [val |-> IF T.k \in {"slice", "ptr"} THEN Zero(T) ELSE cur, err |-> FALSE]
    ELSE CASE T.k = "string" ->
                IF j.t = "string" THEN [val |-> j.s, err |-> FALSE]
                ELSE [val |-> cur, err |-> TRUE]
           [] T.k = "int" ->
                IF j.t = "number" THEN [val |-> IntOf(j.lit), err |-> FALSE]
                ELSE [val |-> cur, err |-> TRUE]
           [] T.k = "float" ->
                IF j.t = "number" THEN [val |-> j.lit, err |-> FALSE]
                ELSE [val |-> cur, err |-> TRUE]
           [] T.k = "bool" ->
                IF j.t = "bool" THEN [val |-> j.b, err |-> FALSE]
                ELSE [val |-> cur, err |-> TRUE]
           [] T.k = "slice" ->
                IF j.t = "array"
                THEN LET ds == [i \in 1..Len(j.elems) |->
                                   decodeValue(T.elem, j.elems[i], Zero(T.elem))]
                     IN  [val |-> MakeSlice([i \in 1..Len(j.elems) |-> ds[i].val]),
                          err |-> \E i \in 1..Len(j.elems) : ds[i].err]
                ELSE [val |-> cur, err |-> TRUE]
           [] T.k = "ptr" ->
                LET d == decodeValue(T.elem, j, IF cur.nil THEN Zero(T.elem) ELSE cur.val)
                IN  [val |-> AddrOf(d.val), err |-> d.err]
           [] OTHER ->
                IF j.t = "object"
                THEN decodeObject(T, j.members, 1, cur, FALSE)
                ELSE [val |-> cur, err |-> TRUE]

\* decodeState.object: the members from the i-th on, in the order of the
\* input; a key no field matches is skipped
decodeObject(T, members, i, cur, err) ==
    IF i > Len(members) THEN [val |-> cur, err |-> err]
    ELSE LET f == FieldFor(T, members[i].key) IN
         IF f = 0 THEN decodeObject(T, members, i + 1, cur, err)
         ELSE LET name == T.fields[f].name
                  d == decodeValue(T.fields[f].type, members[i].val, cur[name])
              IN  decodeObject(T, members, i + 1, [cur EXCEPT ![name] = d.val], err \/ d.err)

(* The webhook payload types, field by field; the named string types
   (MessageType, MessageStatus, PricingModel, ...) are decoded as strings *)

WebhookMetadata ==
    StructOf(<<
        Field("DisplayPhoneNumber", "display_phone_number", StringT),
        Field("PhoneNumberID", "phone_number_id", StringT)>>)

WebhookProfile ==
    StructOf(<<
        Field("Name", "name", StringT)>>)

WebhookContact ==
    StructOf(<<
        Field("Profile", "profile", WebhookProfile),
        Field("WaID", "wa_id", StringT)>>)

MessageTypeUnknown == "unknown"
MessageTypeUnsupported == "unsupported"

WebhookReferredProduct ==
    StructOf(<<
        Field("CatalogID", "catalog_id", StringT),
        Field("ProductRetailerID", "product_retailer_id", StringT)>>)

WebhookMessageContext ==
    StructOf(<<
        Field("From", "from", StringT),
        Field("ID", "id", StringT),
        Field("ReferredProduct", "referred_product", PtrTo(WebhookReferredProduct)),
        Field("Forwarded", "forwarded", BoolT)>>)

WebhookMessageText ==
    StructOf(<<
        Field("Body", "body", StringT)>>)

WebhookMessageMedia ==
    StructOf(<<
        Field("Caption", "caption", StringT),
        Field("Filename", "filename", StringT),
        Field("ID", "id", StringT),
        Field("MimeType", "mime_type", StringT),
        Field("SHA256", "sha256", StringT)>>)

WebhookMessageLocation ==
    StructOf(<<
        Field("Latitude", "latitude", FloatT),
        Field("Longitude", "longitude", FloatT),
        Field("Name", "name", StringT),
        Field("Address", "address", StringT)>>)

WebhookContactAddress ==
    StructOf(<<
        Field("Street", "street", StringT),
        Field("City", "city", StringT),
        Field("State", "state", StringT),
        Field("Zip", "zip", StringT),
        Field("Country", "country", StringT),
        Field("CountryCode", "country_code", StringT),
        Field("Type", "type", StringT)>>)

WebhookContactEmail ==
    StructOf(<<
        Field("Email", "email", StringT),
        Field("Type", "type", StringT)>>)

WebhookContactName ==
    StructOf(<<
        Field("FormattedName", "formatted_name", StringT),
        Field("FirstName", "first_name", StringT),
        Field("LastName", "last_name", StringT),
        Field("MiddleName", "middle_name", StringT),
        Field("Suffix", "suffix", StringT),
        Field("Prefix", "prefix", StringT)>>)

WebhookContactOrg ==
    StructOf(<<
        Field("Company", "company", StringT),
        Field("Department", "department", StringT),
        Field("Title", "title", StringT)>>)

WebhookContactPhone ==
    StructOf(<<
        Field("Phone", "phone", StringT),
        Field("WaID", "wa_id", StringT),
        Field("Type", "type", StringT)>>)

WebhookContactURL ==
    StructOf(<<
        Field("URL", "url", StringT),
        Field("Type", "type", StringT)>>)

WebhookMessageContact ==
    StructOf(<<
        Field("Addresses", "addresses", SliceOf(WebhookContactAddress)),
        Field("Birthday", "birthday", StringT),
        Field("Emails", "emails", SliceOf(WebhookContactEmail)),
        Field("Name", "name", PtrTo(WebhookContactName)),
        Field("Org", "org", PtrTo(WebhookContactOrg)),
        Field("Phones", "phones", SliceOf(WebhookContactPhone)),
        Field("URLs", "urls", SliceOf(WebhookContactURL))>>)

WebhookMessageButton ==
    StructOf(<<
        Field("Text", "text", StringT),
        Field("Payload", "payload", StringT)>>)

WebhookMessageInteractiveButton ==
    StructOf(<<
        Field("ID", "id", StringT),
        Field("Title", "title", StringT)>>)

WebhookMessageInteractiveListItem ==
    StructOf(<<
        Field("ID", "id", StringT),
        Field("Title", "title", StringT),
        Field("Description", "description", StringT)>>)

WebhookMessageInteractive ==
    StructOf(<<
        Field("Type", "type", StringT),
        Field("ButtonReply", "button_reply", PtrTo(WebhookMessageInteractiveButton)),
        Field("ListReply", "list_reply", PtrTo(WebhookMessageInteractiveListItem))>>)

WebhookMessageOrderItem ==
    StructOf(<<
        Field("ProductRetailerID", "product_retailer_id", StringT),
        Field("Quantity", "quantity", StringT),
        Field("ItemPrice", "item_price", StringT),
        Field("Currency", "currency", StringT)>>)

WebhookMessageOrder ==
    StructOf(<<
        Field("CatalogID", "catalog_id", StringT),
        Field("ProductItems", "product_items", SliceOf(WebhookMessageOrderItem)),
        Field("Text", "text", StringT)>>)

WebhookMessageSystem ==
    StructOf(<<
        Field("Body", "body", StringT),
        Field("NewWaID", "new_wa_id", StringT),
        Field("Type", "type", StringT)>>)

WebhookMessageReaction ==
    StructOf(<<
        Field("MessageID", "message_id", StringT),
        Field("Emoji", "emoji", StringT)>>)

WebhookMessageReferral ==
    StructOf(<<
        Field("SourceURL", "source_url", StringT),
        Field("SourceID", "source_id", StringT),
        Field("SourceType", "source_type", StringT),
        Field("Headline", "headline", StringT),
        Field("Body", "body", StringT),
        Field("MediaType", "media_type", StringT),
        Field("ImageURL", "image_url", StringT),
        Field("VideoURL", "video_url", StringT),
        Field("ThumbnailURL", "thumbnail_url", StringT),
        Field("CTWAClid", "ctwa_clid", StringT)>>)

WebhookErrorData ==
    StructOf(<<
        Field("Details", "details", StringT)>>)

WebhookError ==
    StructOf(<<
        Field("Code", "code", IntT),
        Field("Title", "title", StringT),
        Field("Message", "message", StringT),
        Field("Details", "details", StringT),
        Field("ErrorData", "error_data", PtrTo(WebhookErrorData)),
        Field("Href", "href", StringT)>>)

WebhookMessage ==
    StructOf(<<
        Field("From", "from", StringT),
        Field("ID", "id", StringT),
        Field("Timestamp", "timestamp", StringT),
        Field("Type", "type", StringT),
        Field("Context", "context", PtrTo(WebhookMessageContext)),
        Field("Text", "text", PtrTo(WebhookMessageText)),
        Field("Image", "image", PtrTo(WebhookMessageMedia)),
        Field("Audio", "audio", PtrTo(WebhookMessageMedia)),
        Field("Video", "video", PtrTo(WebhookMessageMedia)),
        Field("Document", "document", PtrTo(WebhookMessageMedia)),
        Field("Sticker", "sticker", PtrTo(WebhookMessageMedia)),
        Field("Location", "location", PtrTo(WebhookMessageLocation)),
        Field("Contacts", "contacts", SliceOf(WebhookMessageContact)),
        Field("Button", "button", PtrTo(WebhookMessageButton)),
        Field("Interactive", "interactive", PtrTo(WebhookMessageInteractive)),
        Field("Order", "order", PtrTo(WebhookMessageOrder)),
        Field("System", "system", PtrTo(WebhookMessageSystem)),
        Field("Reaction", "reaction", PtrTo(WebhookMessageReaction)),
        Field("Referral", "referral", PtrTo(WebhookMessageReferral)),
        Field("Errors", "errors", SliceOf(WebhookError))>>)

WebhookConversationOrigin ==
    StructOf(<<
        Field("Type", "type", StringT)>>)

WebhookStatusConversation ==
    StructOf(<<
        Field("ID", "id", StringT),
        Field("ExpirationTimestamp", "expiration_timestamp", StringT),
        Field("Origin", "origin", PtrTo(WebhookConversationOrigin))>>)

WebhookStatusPricing ==
    StructOf(<<
        Field("Billable", "billable", BoolT),
        Field("PricingModel", "pricing_model", StringT),
        Field("Category", "category", StringT)>>)

WebhookStatus ==
    StructOf(<<
        Field("ID", "id", StringT),
        Field("Status", "status", StringT),
        Field("Timestamp", "timestamp", StringT),
        Field("RecipientID", "recipient_id", StringT),
        Field("Conversation", "conversation", PtrTo(WebhookStatusConversation)),
        Field("Pricing", "pricing", PtrTo(WebhookStatusPricing)),
        Field("Errors", "errors", SliceOf(WebhookError))>>)

\* WebhookValue with the tag of Messages misspelt
WebhookValueMistagged ==
    StructOf(<<
        Field("MessagingProduct", "messaging_product", StringT),
        Field("Metadata", "metadata", WebhookMetadata),
        Field("Contacts", "contacts", SliceOf(WebhookContact)),
        Field("Messages", "message", SliceOf(WebhookMessage)),
        Field("Statuses", "statuses", SliceOf(WebhookStatus)),
        Field("Errors", "errors", SliceOf(WebhookError))>>)

WebhookValue ==
    StructOf(<<
        Field("MessagingProduct", "messaging_product", StringT),
        Field("Metadata", "metadata", WebhookMetadata),
        Field("Contacts", "contacts", SliceOf(WebhookContact)),
        Field("Messages", "messages", SliceOf(WebhookMessage)),
        Field("Statuses", "statuses", SliceOf(WebhookStatus)),
        Field("Errors", "errors", SliceOf(WebhookError))>>)

WebhookChange ==
    StructOf(<<
        Field("Value", "value", WebhookValue),
        Field("Field", "field", StringT)>>)

WebhookEntry ==
    StructOf(<<
        Field("ID", "id", StringT),
        Field("Changes", "changes", SliceOf(WebhookChange))>>)

WebhookRequest ==
    StructOf(<<
        Field("Object", "object", StringT),
        Field("Entry", "entry", SliceOf(WebhookEntry))>>)

\* the zero WebhookRequest
ZeroRequest == Zero(WebhookRequest)

\* json.Unmarshal(body, &request): a body that is not one JSON value is a
\* SyntaxError and nothing is stored; else the value is stored in request,
\* and the error is the UnmarshalTypeError met on the way, if any
Unmarshal(data) ==
    IF ~checkValid(data)
    THEN [err |-> TRUE, kind |-> "SyntaxError", request |-> ZeroRequest]
    ELSE LET d == decodeValue(WebhookRequest, ParseValue(data, 1).val, ZeroRequest) IN
         [err |-> d.err, kind |-> IF d.err THEN "UnmarshalTypeError" ELSE "",
          request |-> d.val]

-----------------------------------------------------------------------------
(* Webhook.verifySignatureImpl, Webhook.verifySignature *)

\* verifySignatureImpl dropping as many characters as the prefix has, without
\* looking at them
verifySignatureImplAnyPrefix(appSecret, signature, prefix, data, hashFunc) ==
    LET after == SubSeq(signature, Len(prefix) + 1, Len(signature))
        actualSig == EncodeToString(hmacSum(hashFunc, appSecret, data))
    IN  hmacEqual(after, actualSig)

\* verifySignatureImpl refusing an empty body
verifySignatureImplNonEmpty(appSecret, signature, prefix, data, hashFunc) ==
    LET cut == CutPrefix(signature, prefix)
        actualSig == EncodeToString(hmacSum(hashFunc, appSecret, data))
    IN  IF ~cut.found \/ Len(data) = 0 THEN FALSE ELSE hmacEqual(cut.after, actualSig)

verifySignatureImpl(appSecret, signature, prefix, data, hashFunc) ==
    LET cut == CutPrefix(signature, prefix)
        actualSig == EncodeToString(hmacSum(hashFunc, appSecret, data))
    IN  IF ~cut.found THEN FALSE ELSE hmacEqual(cut.after, actualSig)

\* verifySignature passing a request without signature headers
verifySignatureFailOpen(appSecret, r, data) ==
    IF Get(r.Sig256) # <<>>
    THEN verifySignatureImpl(appSecret, Get(r.Sig256), Sha256Prefix, data, "sha256")
    ELSE IF Get(r.Sig1) # <<>>
         THEN verifySignatureImpl(appSecret, Get(r.Sig1), Sha1Prefix, data, "sha1")
         ELSE TRUE

\* verifySignature falling back to the SHA-1 header when the SHA-256 header
\* does not verify
verifySignatureFallback(appSecret, r, data) ==
    \/ /\ Get(r.Sig256) # <<>>
       /\ verifySignatureImpl(appSecret, Get(r.Sig256), Sha256Prefix, data, "sha256")
    \/ /\ Get(r.Sig1) # <<>>
       /\ verifySignatureImpl(appSecret, Get(r.Sig1), Sha1Prefix, data, "sha1")

\* verifySignature choosing the header by its presence, not by its value
verifySignaturePresence(appSecret, r, data) ==
    IF r.Sig256 # <<>>
    THEN verifySignatureImpl(appSecret, Get(r.Sig256), Sha256Prefix, data, "sha256")
    ELSE IF r.Sig1 # <<>>
         THEN verifySignatureImpl(appSecret, Get(r.Sig1), Sha1Prefix, data, "sha1")
         ELSE FALSE

verifySignature(appSecret, r, data) ==
    IF Get(r.Sig256) # <<>>
    THEN verifySignatureImpl(appSecret, Get(r.Sig256), Sha256Prefix, data, "sha256")
    ELSE IF Get(r.Sig1) # <<>>
         THEN verifySignatureImpl(appSecret, Get(r.Sig1), Sha1Prefix, data, "sha1")
         ELSE FALSE

-----------------------------------------------------------------------------
(* Notification bodies, lexeme by lexeme *)

Doc ==
    [
    \* the end-to-end example of the specification: one entry, one change, one text message
    Example |->
    <<
    "{", "object", ":", "whatsapp_business_account", ",", "entry", ":", "[",
    "{", "id", ":", "1", ",", "changes", ":", "[", "{", "field", ":",
    "messages", ",", "value", ":", "{", "messaging_product", ":", "whatsapp",
    ",", "metadata", ":", "{", "display_phone_number", ":", "1", ",",
    "phone_number_id", ":", "2", "}", ",", "messages", ":", "[", "{", "from",
    ":", "123", ",", "id", ":", "m1", ",", "timestamp", ":", "1000", ",",
    "type", ":", "text", ",", "text", ":", "{", "body", ":", "hi", "}", "}",
    "]", "}", "}", "]", "}", "]", "}">>,
    \* a change value without contacts, messages, statuses and errors
    NoLists |->
    <<
    "{", "object", ":", "whatsapp_business_account", ",", "entry", ":", "[",
    "{", "id", ":", "1", ",", "changes", ":", "[", "{", "field", ":",
    "messages", ",", "value", ":", "{", "messaging_product", ":", "whatsapp",
    ",", "metadata", ":", "{", "display_phone_number", ":", "1", ",",
    "phone_number_id", ":", "2", "}", "}", "}", "]", "}", "]", "}">>,
    \* a change value whose four lists are present and empty
    EmptyLists |->
    <<
    "{", "object", ":", "whatsapp_business_account", ",", "entry", ":", "[",
    "{", "id", ":", "1", ",", "changes", ":", "[", "{", "field", ":",
    "messages", ",", "value", ":", "{", "messaging_product", ":", "whatsapp",
    ",", "metadata", ":", "{", "display_phone_number", ":", "1", ",",
    "phone_number_id", ":", "2", "}", ",", "contacts", ":", "[", "]", ",",
    "messages", ":", "[", "]", ",", "statuses", ":", "[", "]", ",", "errors",
    ":", "[", "]", "}", "}", "]", "}", "]", "}">>,
    \* a change value whose four lists are null
    NullLists |->
    <<
    "{", "object", ":", "whatsapp_business_account", ",", "entry", ":", "[",
    "{", "id", ":", "1", ",", "changes", ":", "[", "{", "field", ":",
    "messages", ",", "value", ":", "{", "messaging_product", ":", "whatsapp",
    ",", "metadata", ":", "{", "display_phone_number", ":", "1", ",",
    "phone_number_id", ":", "2", "}", ",", "contacts", ":", "null", ",",
    "messages", ":", "null", ",", "statuses", ":", "null", ",", "errors",
    ":", "null", "}", "}", "]", "}", "]", "}">>,
    \* a message of a type the library does not know, without payload
    FutureType |->
    <<
    "{", "object", ":", "whatsapp_business_account", ",", "entry", ":", "[",
    "{", "id", ":", "1", ",", "changes", ":", "[", "{", "field", ":",
    "messages", ",", "value", ":", "{", "messaging_product", ":", "whatsapp",
    ",", "metadata", ":", "{", "display_phone_number", ":", "1", ",",
    "phone_number_id", ":", "2", "}", ",", "messages", ":", "[", "{", "from",
    ":", "123", ",", "id", ":", "m1", ",", "timestamp", ":", "1000", ",",
    "type", ":", "some_future_type", "}", "]", "}", "}", "]", "}", "]", "}">>,
    \* the example with fields no struct declares, at the top level and nested
    UnknownFields |->
    <<
    "{", "object", ":", "whatsapp_business_account", ",", "version", ":",
    "5", ",", "entry", ":", "[", "{", "id", ":", "1", ",", "changes", ":",
    "[", "{", "field", ":", "messages", ",", "value", ":", "{",
    "messaging_product", ":", "whatsapp", ",", "metadata", ":", "{",
    "display_phone_number", ":", "1", ",", "phone_number_id", ":", "2", "}",
    ",", "future", ":", "{", "a", ":", "[", "5", ",", "true", "]", "}", ",",
    "messages", ":", "[", "{", "from", ":", "123", ",", "id", ":", "m1", ",",
    "timestamp", ":", "1000", ",", "type", ":", "text", ",", "text", ":",
    "{", "body", ":", "hi", ",", "preview", ":", "false", "}", ",", "extra",
    ":", "x", "}", "]", "}", "}", "]", "}", "]", "}">>,
    \* the example with the key of the entry list in another case
    FoldedKey |->
    <<
    "{", "object", ":", "whatsapp_business_account", ",", "Entry", ":", "[",
    "{", "id", ":", "1", ",", "changes", ":", "[", "{", "field", ":",
    "messages", ",", "value", ":", "{", "messaging_product", ":", "whatsapp",
    ",", "metadata", ":", "{", "display_phone_number", ":", "1", ",",
    "phone_number_id", ":", "2", "}", ",", "messages", ":", "[", "{", "from",
    ":", "123", ",", "id", ":", "m1", ",", "timestamp", ":", "1000", ",",
    "type", ":", "text", ",", "text", ":", "{", "body", ":", "hi", "}", "}",
    "]", "}", "}", "]", "}", "]", "}">>,
    \* the entry list arrives as a string
    ScalarEntry |->
    <<
    "{", "object", ":", "whatsapp_business_account", ",", "entry", ":",
    "none", "}">>,
    \* the value object of a change arrives as a number
    ScalarValue |->
    <<
    "{", "object", ":", "whatsapp_business_account", ",", "entry", ":", "[",
    "{", "id", ":", "1", ",", "changes", ":", "[", "{", "value", ":", "5",
    ",", "field", ":", "messages", "}", "]", "}", "]", "}">>,
    \* the text payload of a message arrives as a string
    ScalarText |->
    <<
    "{", "object", ":", "whatsapp_business_account", ",", "entry", ":", "[",
    "{", "id", ":", "1", ",", "changes", ":", "[", "{", "field", ":",
    "messages", ",", "value", ":", "{", "messaging_product", ":", "whatsapp",
    ",", "metadata", ":", "{", "display_phone_number", ":", "1", ",",
    "phone_number_id", ":", "2", "}", ",", "messages", ":", "[", "{", "from",
    ":", "123", ",", "id", ":", "m1", ",", "timestamp", ":", "1000", ",",
    "type", ":", "text", ",", "text", ":", "hi", "}", "]", "}", "}", "]",
    "}", "]", "}">>,
    \* two entries; the first with two changes, the first change with an image and a text message
    TwoEntries |->
    <<
    "{", "object", ":", "whatsapp_business_account", ",", "entry", ":", "[",
    "{", "id", ":", "1", ",", "changes", ":", "[", "{", "field", ":",
    "messages", ",", "value", ":", "{", "messaging_product", ":", "whatsapp",
    ",", "metadata", ":", "{", "display_phone_number", ":", "1", ",",
    "phone_number_id", ":", "2", "}", ",", "messages", ":", "[", "{", "from",
    ":", "123", ",", "id", ":", "m2", ",", "timestamp", ":", "1001", ",",
    "type", ":", "image", ",", "image", ":", "{", "id", ":", "img1", ",",
    "mime_type", ":", "image/jpeg", ",", "sha256", ":", "abc", "}", "}", ",",
    "{", "from", ":", "123", ",", "id", ":", "m1", ",", "timestamp", ":",
    "1000", ",", "type", ":", "text", ",", "text", ":", "{", "body", ":",
    "hi", "}", "}", "]", "}", "}", ",", "{", "field", ":", "messages", ",",
    "value", ":", "{", "messaging_product", ":", "whatsapp", ",", "metadata",
    ":", "{", "display_phone_number", ":", "1", ",", "phone_number_id", ":",
    "2", "}", ",", "statuses", ":", "[", "{", "id", ":", "m0", ",", "status",
    ":", "failed", ",", "timestamp", ":", "999", ",", "recipient_id", ":",
    "123", ",", "errors", ":", "[", "{", "code", ":", "131000", ",", "title",
    ":", "oops", "}", "]", "}", "]", "}", "}", "]", "}", ",", "{", "id", ":",
    "3", ",", "changes", ":", "[", "{", "field", ":", "messages", ",",
    "value", ":", "{", "messaging_product", ":", "whatsapp", ",", "metadata",
    ":", "{", "display_phone_number", ":", "1", ",", "phone_number_id", ":",
    "2", "}", ",", "messages", ":", "[", "{", "from", ":", "123", ",", "id",
    ":", "m1", ",", "timestamp", ":", "1000", ",", "type", ":", "text", ",",
    "text", ":", "{", "body", ":", "hi", "}", "}", "]", "}", "}", "]", "}",
    "]", "}">>,
    \* the numeric code of an error arrives as a string
    CodeString |->
    <<
    "{", "object", ":", "whatsapp_business_account", ",", "entry", ":", "[",
    "{", "id", ":", "1", ",", "changes", ":", "[", "{", "field", ":",
    "messages", ",", "value", ":", "{", "messaging_product", ":", "whatsapp",
    ",", "metadata", ":", "{", "display_phone_number", ":", "1", ",",
    "phone_number_id", ":", "2", "}", ",", "errors", ":", "[", "{", "code",
    ":", "oops", ",", "title", ":", "oops", "}", "]", "}", "}", "]", "}",
    "]", "}">>,
    \* a JSON array where the envelope object is expected
    Array |->
    <<
    "[", "]">>,
    \* the example cut off before its end
    Truncated |->
    <<
    "{", "object", ":", "whatsapp_business_account", ",", "entry", ":", "[",
    "{", "id", ":", "1", ",", "changes", ":", "[", "{", "field", ":",
    "messages", ",", "value", ":", "{", "messaging_product", ":", "whatsapp",
    ",", "metadata", ":", "{", "display_phone_number", ":", "1", ",",
    "phone_number_id", ":", "2", "}", ",", "messages", ":", "[", "{", "from",
    ":", "123", ",", "id", ":", "m1", ",", "timestamp", ":", "1000", ",",
    "type", ":", "text", ",", "text", ":", "{", "body", ":", "hi", "}", "}",
    "]", "}", "}", "]">>
    ]

Documents ==
    {Doc.Example,
     Doc.NoLists,
     Doc.EmptyLists,
     Doc.NullLists,
     Doc.FutureType,
     Doc.UnknownFields,
     Doc.FoldedKey,
     Doc.ScalarEntry,
     Doc.ScalarValue,
     Doc.ScalarText,
     Doc.TwoEntries,
     Doc.CodeString,
     Doc.Array,
     Doc.Truncated}

-----------------------------------------------------------------------------
(* Requests the platform or anybody else may send *)

\* what a sender puts in front of the digest
SigPrefixes == {Sha256Prefix, Sha1Prefix, <<"S","H","A","2","5","6","=">>, <<>>}
\* the bodies senders sign
SignedBodies == {<<>>, <<"{", "}">>}
\* the values a sender who signs data with key can put in a signature
\* header: none (absent), an empty one, or a prefix and the hex digest
HeaderValues(key, data) ==
    {<<>>, << <<>> >>} \cup
    {<<p \o EncodeToString(hmacSum(h, key, data))>> : p \in SigPrefixes, h \in HashFuncs}
QueryValues(strs) == {<<>>} \cup {<<s>> : s \in strs}

Modes == {<<>>, Subscribe, <<"u","n","s","u","b","s","c","r","i","b","e">>}
Challenges == {<<>>, <<"c">>, <<"c","h">>}
Tokens == {<<>>, <<"k">>, <<"z">>}

\* POSTs whose body arrives: both headers made by one sender from one key and
\* one signed body, sent with any body
SignedPosts(key, data) ==
    {[Method |-> "POST", Sig256 |-> s2, Sig1 |-> s1, Body |-> b, BodyErr |-> FALSE,
      Mode |-> <<>>, Challenge |-> <<>>, VerifyToken |-> <<>>, Ctx |-> "ctx1"] :
        s2 \in HeaderValues(key, data), s1 \in HeaderValues(key, data), b \in Bodies}

\* POSTs whose body cannot be read
BrokenPosts ==
    {[Method |-> "POST", Sig256 |-> s2, Sig1 |-> <<>>, Body |-> <<>>, BodyErr |-> TRUE,
      Mode |-> <<>>, Challenge |-> <<>>, VerifyToken |-> <<>>, Ctx |-> "ctx1"] :
        s2 \in HeaderValues(<<>>, <<>>)}

\* the request contexts r.Context() returns
Contexts == {"ctx1", "ctx2"}

\* a notification, signed by its sender with key under SHA-256
DocPosts(key) ==
    {[Method |-> "POST",
      Sig256 |-> <<Sha256Prefix \o EncodeToString(hmacSum("sha256", key, d))>>,
      Sig1 |-> <<>>, Body |-> d, BodyErr |-> FALSE,
      Mode |-> <<>>, Challenge |-> <<>>, VerifyToken |-> <<>>, Ctx |-> c] :
        d \in Documents, c \in Contexts}

PostRequests ==
    BrokenPosts \cup UNION {SignedPosts(k, b) : k \in Secrets, b \in SignedBodies}
        \cup UNION {DocPosts(k) : k \in Secrets}

\* what a request that is not a POST may carry all the same: no body and
\* no signature, or a body with its SHA-256 signature under some key
Carried(bodies) ==
    {[Body |-> <<>>, Sig256 |-> <<>>]} \cup
    {[Body |-> b, Sig256 |-> <<Sha256Prefix \o EncodeToString(hmacSum("sha256", k, b))>>] :
        b \in bodies, k \in Secrets}

GetRequests ==
    {[Method |-> "GET", Sig256 |-> x.Sig256, Sig1 |-> <<>>, Body |-> x.Body, BodyErr |-> FALSE,
      Mode |-> m, Challenge |-> c, VerifyToken |-> t, Ctx |-> "ctx1"] :
        m \in QueryValues(Modes), c \in QueryValues(Challenges), t \in QueryValues(Tokens),
        x \in Carried({<<"{", "}">>})}

\* methods ServeHTTP has no case for; method names are case-sensitive
OtherMethods == {"PUT", "get"}

OtherRequests ==
    {[Method |-> m, Sig256 |-> x.Sig256, Sig1 |-> <<>>, Body |-> x.Body, BodyErr |-> FALSE,
      Mode |-> <<>>, Challenge |-> <<>>, VerifyToken |-> <<>>, Ctx |-> "ctx1"] :
        m \in OtherMethods, x \in Carried(Bodies)}

Requests == PostRequests \cup GetRequests \cup OtherRequests

\* the requests that arrive while two goroutines serve: a handshake, a
\* notification that decodes and one that does not, both signed by the same
\* sender, a POST without signature, one whose body cannot be read, and a PUT
ConcurrentRequests ==
    {r \in GetRequests :
        r.Mode = <<Subscribe>> /\ r.Challenge = << <<"c">> >> /\ r.VerifyToken = <<>>
        /\ r.Body = <<>>}
    \cup {r \in DocPosts(<<"k">>) : r.Body \in {Doc.Example, Doc.ScalarEntry} /\ r.Ctx = "ctx1"}
    \cup {r \in SignedPosts(<<>>, <<>>) : r.Sig256 = <<>> /\ r.Sig1 = <<>> /\ r.Body = <<"{", "}">>}
    \cup {r \in BrokenPosts : r.Sig256 = <<>>}
    \cup {r \in OtherRequests : r.Method = "PUT" /\ r.Body = <<>>}

NoRequest == [Method |-> "", Sig256 |-> <<>>, Sig1 |-> <<>>, Body |-> <<>>, BodyErr |-> FALSE,
              Mode |-> <<>>, Challenge |-> <<>>, VerifyToken |-> <<>>, Ctx |-> ""]

-----------------------------------------------------------------------------
(* State *)

NoResponse == [status |-> 0, body |-> <<>>]
NoCalls == [handler |-> 0, post |-> 0, err |-> 0, host |-> 0, writes |-> 0, core |-> 0]
NoHook == [class |-> "none", reqNil |-> TRUE, err |-> "", wraps |-> "", ret |-> FALSE,
           hostRet |-> FALSE, wrote |-> FALSE]
\* the arguments of the last call of Handler.HandleWebhook
NotHandled == [ctx |-> "", request |-> ZeroRequest]

\* NewWebhook: the given secrets, and the Webhook itself as its ErrHandler
NewWebhook(webhookSecret, appSecret) ==
    [WebhookSecret |-> webhookSecret, AppSecret |-> appSecret, ErrHandler |-> "self"]

\* the locals of a goroutine of the HTTP server that is not serving
Parked ==
    [pc |-> "idle", req |-> NoRequest, body |-> <<>>, sigOK |-> FALSE,
     request |-> ZeroRequest, w |-> NoResponse, calls |-> NoCalls, hook |-> NoHook,
     handled |-> NotHandled, depth |-> 0, trace |-> <<>>]
\* no second goroutine: requests are served one after the other
NoGoroutine == [pc |-> "none"]
\* no library function has been called
NoCall == [op |-> "none"]

\* a Webhook from NewWebhook, and a goroutine that is not serving
Idle ==
    /\ wh \in {NewWebhook(ws, as) : ws \in Secrets, as \in Secrets}
    /\ pc = "idle"
    /\ req = NoRequest
    /\ body = <<>>
    /\ sigOK = FALSE
    /\ request = ZeroRequest
    /\ w = NoResponse
    /\ calls = NoCalls
    /\ hook = NoHook
    /\ handled = NotHandled
    /\ depth = 0
    /\ trace = <<>>
    /\ lib = NoCall

Init == Idle /\ other = NoGoroutine

\* the HTTP server serves two connections at a time, each in a goroutine of
\* its own, with the same Webhook
ConcInit == Idle /\ other = Parked

-----------------------------------------------------------------------------
(* Host actions *)

\* the host assigns the exported field ErrHandler before serving: nil, or a
\* hook of its own
SetErrHandler(h) ==
    /\ pc = "idle"
    /\ other.pc \in {"none", "idle"}
    /\ wh' = [wh EXCEPT !.ErrHandler = h]
    /\ UNCHANGED <<pc, req, body, sigOK, request, w, calls, hook, handled, depth, trace,
                   other, lib>>

\* ServeHTTP has returned: the request, its ResponseWriter and the locals of
\* the call are gone, the Webhook is as it was
Finish ==
    /\ pc = "done"
    /\ pc' = "idle"
    /\ req' = NoRequest
    /\ body' = <<>>
    /\ sigOK' = FALSE
    /\ request' = ZeroRequest
    /\ w' = NoResponse
    /\ calls' = NoCalls
    /\ hook' = NoHook
    /\ handled' = NotHandled
    /\ depth' = 0
    /\ trace' = <<>>
    /\ UNCHANGED <<wh, other, lib>>

-----------------------------------------------------------------------------
(* Webhook.verifyChallenge *)

\* verifyChallenge without the comparison of hub.mode
verifyChallengeAnyMode(rw, r, webhookSecret) ==
    LET challenge == Get(r.Challenge)
        verifyToken == Get(r.VerifyToken)
    IN  IF verifyToken = webhookSecret
        THEN Write(WriteHeader(rw, StatusOK), challenge)
        ELSE WriteHeader(rw, StatusForbidden)

\* verifyChallenge refusing a request without the parameter hub.verify_token
verifyChallengeTokenRequired(rw, r, webhookSecret) ==
    LET mode == Get(r.Mode)
        challenge == Get(r.Challenge)
        verifyToken == Get(r.VerifyToken)
    IN  IF r.VerifyToken # <<>> /\ mode = Subscribe /\ verifyToken = webhookSecret
        THEN Write(WriteHeader(rw, StatusOK), challenge)
        ELSE WriteHeader(rw, StatusForbidden)

verifyChallenge(rw, r, webhookSecret) ==
    LET mode == Get(r.Mode)
        challenge == Get(r.Challenge)
        verifyToken == Get(r.VerifyToken)
    IN  IF mode = Subscribe /\ verifyToken = webhookSecret
        THEN Write(WriteHeader(rw, StatusOK), challenge)
        ELSE WriteHeader(rw, StatusForbidden)

\* the requests that may arrive
Arriving == IF other = NoGoroutine THEN Requests ELSE ConcurrentRequests

\* ServeHTTP sending every method but GET down the POST path
ServeHTTPAnyMethod ==
    /\ pc = "idle"
    /\ \E r \in Arriving :
        /\ req' = r
        /\ IF r.Method = "GET"
           THEN /\ w' = verifyChallenge(w, r, wh.WebhookSecret)
                /\ calls' = [calls EXCEPT !.writes = @ + 1, !.core = @ + 1]
                /\ trace' = Append(trace, "challenge")
                /\ pc' = "done"
           ELSE /\ pc' = "read"
                /\ UNCHANGED <<w, calls, trace>>
    /\ UNCHANGED <<wh, body, sigOK, request, hook, handled, depth, other, lib>>

\* ServeHTTP with the GET case falling through into the POST case
ServeHTTPFallthrough ==
    /\ pc = "idle"
    /\ \E r \in Arriving :
        /\ req' = r
        /\ IF r.Method = "GET"
           THEN /\ w' = verifyChallenge(w, r, wh.WebhookSecret)
                /\ calls' = [calls EXCEPT !.writes = @ + 1, !.core = @ + 1]
                /\ trace' = Append(trace, "challenge")
                /\ pc' = "read"
           ELSE IF r.Method = "POST"
           THEN /\ pc' = "read"
                /\ UNCHANGED <<w, calls, trace>>
           ELSE /\ w' = WriteHeader(w, StatusMethodNotAllowed)
                /\ calls' = [calls EXCEPT !.writes = @ + 1, !.core = @ + 1]
                /\ trace' = Append(trace, "notallowed")
                /\ pc' = "done"
    /\ UNCHANGED <<wh, body, sigOK, request, hook, handled, depth, other, lib>>

(* Webhook.ServeHTTP *)
\* the HTTP server calls ServeHTTP with a request and a fresh ResponseWriter
ServeHTTP ==
    /\ pc = "idle"
    /\ \E r \in Arriving :
        /\ req' = r
        /\ IF r.Method = "GET"
           THEN /\ w' = verifyChallenge(w, r, wh.WebhookSecret)
                /\ calls' = [calls EXCEPT !.writes = @ + 1, !.core = @ + 1]
                /\ trace' = Append(trace, "challenge")
                /\ pc' = "done"
           ELSE IF r.Method = "POST"
           THEN /\ pc' = "read"
                /\ UNCHANGED <<w, calls, trace>>
           ELSE /\ w' = WriteHeader(w, StatusMethodNotAllowed)
                /\ calls' = [calls EXCEPT !.writes = @ + 1, !.core = @ + 1]
                /\ trace' = Append(trace, "notallowed")
                /\ pc' = "done"
    /\ UNCHANGED <<wh, body, sigOK, request, hook, handled, depth, other, lib>>

-----------------------------------------------------------------------------
(* Webhook.handleWebhookPOST, one action per step *)

\* wh.HandleWebhookErr(r.Context(), w, r, err) as called by handleWebhookPOST
\* with the request (nil or &request) and err, which wraps another error or
\* none
CallErr(class, reqNil, err, wraps) ==
    /\ hook' = [class |-> class, reqNil |-> reqNil, err |-> err, wraps |-> wraps,
                ret |-> FALSE, hostRet |-> FALSE, wrote |-> FALSE]
    /\ calls' = [calls EXCEPT !.post = @ + 1]
    /\ pc' = "hook"

\* io.ReadAll(r.Body)
ReadBody ==
    /\ pc = "read"
    /\ trace' = Append(trace, "read")
    /\ IF req.BodyErr
       THEN /\ CallErr("read", TRUE, "reading body", "ReadError")
            /\ UNCHANGED body
       ELSE /\ body' = req.Body
            /\ pc' = "verify"
            /\ UNCHANGED <<hook, calls>>
    /\ UNCHANGED <<wh, req, sigOK, request, w, handled, depth, other, lib>>

\* the signature step with its result discarded
CheckSignatureIgnored ==
    /\ pc = "verify"
    /\ trace' = Append(trace, "verify")
    /\ sigOK' = verifySignature(wh.AppSecret, req, body)
    /\ pc' = "decode"
    /\ UNCHANGED <<wh, req, body, request, w, handled, depth, hook, calls, other, lib>>

\* the signature step looking at the signature only when the body decodes
CheckSignatureAfterDecode ==
    /\ pc = "verify"
    /\ trace' = Append(trace, "verify")
    /\ sigOK' = verifySignature(wh.AppSecret, req, body)
    /\ IF Unmarshal(body).err
       THEN CallErr("decode", FALSE, "unmarshalling request body", Unmarshal(body).kind)
       ELSE IF ~sigOK'
       THEN CallErr("signature", TRUE, "invalid signature", "")
       ELSE /\ pc' = "decode"
            /\ UNCHANGED <<hook, calls>>
    /\ UNCHANGED <<wh, req, body, request, w, handled, depth, other, lib>>

\* the signature step keyed with the webhook secret
CheckSignatureWebhookSecret ==
    /\ pc = "verify"
    /\ trace' = Append(trace, "verify")
    /\ sigOK' = verifySignature(wh.WebhookSecret, req, body)
    /\ IF ~sigOK'
       THEN CallErr("signature", TRUE, "invalid signature", "")
       ELSE /\ pc' = "decode"
            /\ UNCHANGED <<hook, calls>>
    /\ UNCHANGED <<wh, req, body, request, w, handled, depth, other, lib>>

\* if !wh.verifySignature(r, body)
CheckSignature ==
    /\ pc = "verify"
    /\ trace' = Append(trace, "verify")
    /\ sigOK' = verifySignature(wh.AppSecret, req, body)
    /\ IF ~sigOK'
       THEN CallErr("signature", TRUE, "invalid signature", "")
       ELSE /\ pc' = "decode"
            /\ UNCHANGED <<hook, calls>>
    /\ UNCHANGED <<wh, req, body, request, w, handled, depth, other, lib>>

\* the decode step handing nil to the hook instead of &request
DecodeNilRequest ==
    /\ pc = "decode"
    /\ trace' = Append(trace, "decode")
    /\ LET u == Unmarshal(body) IN
        /\ request' = u.request
        /\ IF u.err
           THEN CallErr("decode", TRUE, "unmarshalling request body", u.kind)
           ELSE /\ pc' = "handler"
                /\ UNCHANGED <<hook, calls>>
    /\ UNCHANGED <<wh, req, body, sigOK, w, handled, depth, other, lib>>

\* the decode step going on to the Handler whatever json.Unmarshal returned
DecodeErrIgnored ==
    /\ pc = "decode"
    /\ trace' = Append(trace, "decode")
    /\ request' = Unmarshal(body).request
    /\ pc' = "handler"
    /\ UNCHANGED <<wh, req, body, sigOK, w, handled, depth, hook, calls, other, lib>>

\* var request WebhookRequest; json.Unmarshal(body, &request)
Decode ==
    /\ pc = "decode"
    /\ trace' = Append(trace, "decode")
    /\ LET u == Unmarshal(body) IN
        /\ request' = u.request
        /\ IF u.err
           THEN CallErr("decode", FALSE, "unmarshalling request body", u.kind)
           ELSE /\ pc' = "handler"
                /\ UNCHANGED <<hook, calls>>
    /\ UNCHANGED <<wh, req, body, sigOK, w, handled, depth, other, lib>>

\* the Handler called with context.Background() instead of r.Context()
HandleWebhookBackground ==
    /\ pc = "handler"
    /\ trace' = Append(trace, "handler")
    /\ \E wrote \in BOOLEAN :
        /\ w' = IF wrote THEN Write(WriteHeader(w, StatusOK), <<"o", "k">>) ELSE w
        /\ calls' = [calls EXCEPT !.handler = @ + 1,
                                  !.writes = @ + (IF wrote THEN 1 ELSE 0)]
    /\ handled' = [ctx |-> "background", request |-> request]
    /\ pc' = "done"
    /\ UNCHANGED <<wh, req, body, sigOK, request, hook, depth, other, lib>>

\* wh.Handler.HandleWebhook(r.Context(), w, &request): the host's handler
\* owns the response and may or may not write one
HandleWebhook ==
    /\ pc = "handler"
    /\ trace' = Append(trace, "handler")
    /\ \E wrote \in BOOLEAN :
        /\ w' = IF wrote THEN Write(WriteHeader(w, StatusOK), <<"o", "k">>) ELSE w
        /\ calls' = [calls EXCEPT !.handler = @ + 1,
                                  !.writes = @ + (IF wrote THEN 1 ELSE 0)]
    /\ handled' = [ctx |-> req.Ctx, request |-> request]
    /\ pc' = "done"
    /\ UNCHANGED <<wh, req, body, sigOK, request, hook, depth, other, lib>>

-----------------------------------------------------------------------------
(* Webhook.HandleWebhookErr *)

\* one entry into the method: a nil ErrHandler returns false, any other
\* ErrHandler has its HandleWebhookErr called; for the Webhook itself that is
\* this method again, one frame deeper
HandleWebhookErr ==
    /\ pc = "hook"
    /\ depth < MaxStack
    /\ calls' = [calls EXCEPT !.err = @ + 1]
    /\ depth' = depth + 1
    /\ IF wh.ErrHandler = "nil"
       THEN /\ hook' = [hook EXCEPT !.ret = FALSE]
            /\ pc' = "hookret"
       ELSE IF wh.ErrHandler = "self"
       THEN /\ pc' = "hook"
            /\ UNCHANGED hook
       ELSE /\ pc' = "hosthook"
            /\ UNCHANGED hook
    /\ UNCHANGED <<wh, req, body, sigOK, request, w, handled, trace, other, lib>>

\* the goroutine stack is exhausted: the runtime ends the process with a
\* fatal error, and with it every goroutine that is serving a request
StackOverflow ==
    /\ pc = "hook"
    /\ depth = MaxStack
    /\ pc' = "crashed"
    /\ other' = IF other.pc \in {"none", "idle", "done"} THEN other
                ELSE [other EXCEPT !.pc = "crashed"]
    /\ UNCHANGED <<wh, req, body, sigOK, request, w, calls, hook, handled, depth, trace, lib>>

\* the host's hook called and its result dropped: HandleWebhookErr returns
\* false
HostErrHandlerResultDropped ==
    /\ pc = "hosthook"
    /\ \E wrote \in BOOLEAN, ret \in BOOLEAN :
        /\ w' = IF wrote THEN Write(WriteHeader(w, 500), <<"h">>) ELSE w
        /\ hook' = [hook EXCEPT !.ret = FALSE, !.hostRet = ret, !.wrote = wrote]
        /\ calls' = [calls EXCEPT !.host = @ + 1,
                                  !.writes = @ + (IF wrote THEN 1 ELSE 0)]
    /\ pc' = "hookret"
    /\ UNCHANGED <<wh, req, body, sigOK, request, handled, depth, trace, other, lib>>

\* return wh.ErrHandler.HandleWebhookErr(ctx, w, req, err) with a hook of
\* the host: it may write a response of its own, and returns a bool, which
\* Webhook.HandleWebhookErr returns in turn
HostErrHandler ==
    /\ pc = "hosthook"
    /\ \E wrote \in BOOLEAN, ret \in BOOLEAN :
        /\ w' = IF wrote THEN Write(WriteHeader(w, 500), <<"h">>) ELSE w
        /\ hook' = [hook EXCEPT !.ret = ret, !.hostRet = ret, !.wrote = wrote]
        /\ calls' = [calls EXCEPT !.host = @ + 1,
                                  !.writes = @ + (IF wrote THEN 1 ELSE 0)]
    /\ pc' = "hookret"
    /\ UNCHANGED <<wh, req, body, sigOK, request, handled, depth, trace, other, lib>>

\* the default responses with the codes of signature and decode failures
\* exchanged
DefaultErrorSwapped(class) ==
    CASE class = "read" -> [msg |-> MsgReadBody, code |-> StatusBadRequest]
      [] class = "signature" -> [msg |-> MsgInvalidSignature, code |-> StatusBadRequest]
      [] OTHER -> [msg |-> MsgParseBody, code |-> StatusForbidden]

\* the default response of each failure class
DefaultError(class) ==
    CASE class = "read" -> [msg |-> MsgReadBody, code |-> StatusBadRequest]
      [] class = "signature" -> [msg |-> MsgInvalidSignature, code |-> StatusForbidden]
      [] OTHER -> [msg |-> MsgParseBody, code |-> StatusBadRequest]

\* the default response written whatever the hook returned
ErrReturnedAlways ==
    /\ pc = "hookret"
    /\ w' = HttpError(w, DefaultError(hook.class).msg, DefaultError(hook.class).code)
    /\ calls' = [calls EXCEPT !.writes = @ + 1, !.core = @ + 1]
    /\ depth' = 0
    /\ pc' = "done"
    /\ UNCHANGED <<wh, req, body, sigOK, request, hook, handled, trace, other, lib>>

\* the default response written when the hook returned true
ErrReturnedInverted ==
    /\ pc = "hookret"
    /\ IF hook.ret
       THEN /\ w' = HttpError(w, DefaultError(hook.class).msg, DefaultError(hook.class).code)
            /\ calls' = [calls EXCEPT !.writes = @ + 1, !.core = @ + 1]
       ELSE UNCHANGED <<w, calls>>
    /\ depth' = 0
    /\ pc' = "done"
    /\ UNCHANGED <<wh, req, body, sigOK, request, hook, handled, trace, other, lib>>

\* if !wh.HandleWebhookErr(...) { http.Error(w, msg, code) }; return
ErrReturned ==
    /\ pc = "hookret"
    /\ IF ~hook.ret
       THEN /\ w' = HttpError(w, DefaultError(hook.class).msg, DefaultError(hook.class).code)
            /\ calls' = [calls EXCEPT !.writes = @ + 1, !.core = @ + 1]
       ELSE UNCHANGED <<w, calls>>
    /\ depth' = 0
    /\ pc' = "done"
    /\ UNCHANGED <<wh, req, body, sigOK, request, hook, handled, trace, other, lib>>

-----------------------------------------------------------------------------

Next ==
    \/ \E h \in ErrHandlers \ {"self"} : SetErrHandler(h)
    \/ ServeHTTP
    \/ ReadBody
    \/ CheckSignature
    \/ Decode
    \/ HandleWebhook
    \/ HandleWebhookErr
    \/ StackOverflow
    \/ HostErrHandler
    \/ ErrReturned
    \/ Finish

Spec == Init /\ [][Next]_vars

-----------------------------------------------------------------------------
(* Two requests in flight *)

\* the scheduler takes the running goroutine off the processor and runs the
\* other one: the locals of the two change places
Switch ==
    /\ other # NoGoroutine
    /\ other' = [pc |-> pc, req |-> req, body |-> body, sigOK |-> sigOK,
                 request |-> request, w |-> w, calls |-> calls, hook |-> hook,
                 handled |-> handled, depth |-> depth, trace |-> trace]
    /\ pc' = other.pc
    /\ req' = other.req
    /\ body' = other.body
    /\ sigOK' = other.sigOK
    /\ request' = other.request
    /\ w' = other.w
    /\ calls' = other.calls
    /\ hook' = other.hook
    /\ handled' = other.handled
    /\ depth' = other.depth
    /\ trace' = other.trace
    /\ UNCHANGED <<wh, lib>>

ConcNext == Next \/ Switch

ConcSpec == ConcInit /\ [][ConcNext]_vars

-----------------------------------------------------------------------------
(* The library's helpers, called by the host outside any request *)

\* the size limits, in bytes: 5MB, 16MB, 16MB, 100MB and 100KB
MaxImageSize == 5242880
MaxAudioSize == 16777216
MaxVideoSize == 16777216
MaxDocumentSize == 104857600
MaxStickerSize == 102400

\* the constants of type SupportedMimeType
MimeType ==
    [ImageJPEG |-> "image/jpeg",
     ImagePNG |-> "image/png",
     ImageWebP |-> "image/webp",
     AudioAAC |-> "audio/aac",
     AudioMP4 |-> "audio/mp4",
     AudioMPEG |-> "audio/mpeg",
     AudioAMR |-> "audio/amr",
     AudioOGG |-> "audio/ogg",
     VideoMP4 |-> "video/mp4",
     Video3GPP |-> "video/3gpp",
     DocumentPDF |-> "application/pdf",
     DocumentDOCX |->
         "application/vnd.openxmlformats-officedocument.wordprocessingml.document",
     DocumentPPTX |->
         "application/vnd.openxmlformats-officedocument.presentationml.presentation",
     DocumentXLSX |->
         "application/vnd.openxmlformats-officedocument.spreadsheetml.sheet",
     StickerWebP |-> "image/webp"]

\* errors are modelled by their message, nil by the empty string
NoError == ""

ErrUnsupportedMimeType == "unsupported MIME type"

\* the switch of ValidateMediaSize: the first case that matches is taken
ValidateMediaSize(mimeType, size) ==
    IF size <= 0 THEN "invalid media size"
    ELSE IF mimeType \in {MimeType.ImageJPEG, MimeType.ImagePNG, MimeType.ImageWebP}
    THEN IF size > MaxImageSize THEN "image size exceeds maximum allowed size" ELSE NoError
    ELSE IF mimeType \in {MimeType.AudioAAC, MimeType.AudioMP4, MimeType.AudioMPEG,
                          MimeType.AudioAMR, MimeType.AudioOGG}
    THEN IF size > MaxAudioSize THEN "audio size exceeds maximum allowed size" ELSE NoError
    ELSE IF mimeType \in {MimeType.VideoMP4, MimeType.Video3GPP}
    THEN IF size > MaxVideoSize THEN "video size exceeds maximum allowed size" ELSE NoError
    ELSE IF mimeType \in {MimeType.DocumentPDF, MimeType.DocumentDOCX,
                          MimeType.DocumentPPTX, MimeType.DocumentXLSX}
    THEN IF size > MaxDocumentSize THEN "document size exceeds maximum allowed size" ELSE NoError
    ELSE IF mimeType = MimeType.StickerWebP
    THEN IF size > MaxStickerSize THEN "sticker size exceeds maximum allowed size" ELSE NoError
    ELSE ErrUnsupportedMimeType

supportedTypes ==
    <<MimeType.ImageJPEG, MimeType.ImagePNG, MimeType.ImageWebP,
      MimeType.AudioAAC, MimeType.AudioMP4, MimeType.AudioMPEG, MimeType.AudioAMR,
      MimeType.AudioOGG, MimeType.VideoMP4, MimeType.Video3GPP,
      MimeType.DocumentPDF, MimeType.DocumentDOCX, MimeType.DocumentPPTX,
      MimeType.DocumentXLSX, MimeType.StickerWebP>>

\* for _, supported := range supportedTypes { if mimeType == supported ... }
ValidateMimeType(mimeType) ==
    IF \E i \in 1..Len(supportedTypes) : mimeType = supportedTypes[i]
    THEN NoError
    ELSE ErrUnsupportedMimeType

\* the MIME types the host passes: every supported one and some others
MimeTypes ==
    {supportedTypes[i] : i \in 1..Len(supportedTypes)}
        \cup {"", "image/gif", "IMAGE/JPEG", "text/plain"}

\* the sizes the host passes: around zero and around every limit
MediaSizes ==
    {-1, 0, 1}
        \cup {m + d : m \in {MaxStickerSize, MaxImageSize, MaxAudioSize,
                             MaxDocumentSize},
                      d \in {0, 1}}

\* the host calls ValidateMediaSize
CallValidateMediaSize ==
    /\ lib.op = "none"
    /\ pc = "idle"
    /\ \E mimeType \in MimeTypes, size \in MediaSizes :
           lib' = [op |-> "ValidateMediaSize", mimeType |-> mimeType,
                   size |-> size, err |-> ValidateMediaSize(mimeType, size)]
    /\ UNCHANGED <<wh, pc, req, body, sigOK, request, w, calls, hook, handled,
                   depth, trace, other>>

\* the host calls ValidateMimeType
CallValidateMimeType ==
    /\ lib.op = "none"
    /\ pc = "idle"
    /\ \E mimeType \in MimeTypes :
           lib' = [op |-> "ValidateMimeType", mimeType |-> mimeType,
                   err |-> ValidateMimeType(mimeType)]
    /\ UNCHANGED <<wh, pc, req, body, sigOK, request, w, calls, hook, handled,
                   depth, trace, other>>

\* the constants of type MessageType that ExtractMediaID tells apart
MediaType ==
    [Image |-> "image", Audio |-> "audio", Video |-> "video",
     Document |-> "document", Sticker |-> "sticker"]

\* the sticker case reading the image slot
ExtractMediaIDStickerFromImage(message) ==
    IF message.nil THEN ""
    ELSE LET m == message.val IN
         CASE m.Type = MediaType.Image ->
                  IF ~m.Image.nil THEN m.Image.val.ID ELSE ""
           [] m.Type = MediaType.Audio ->
                  IF ~m.Audio.nil THEN m.Audio.val.ID ELSE ""
           [] m.Type = MediaType.Video ->
                  IF ~m.Video.nil THEN m.Video.val.ID ELSE ""
           [] m.Type = MediaType.Document ->
                  IF ~m.Document.nil THEN m.Document.val.ID ELSE ""
           [] m.Type = MediaType.Sticker ->
                  IF ~m.Image.nil THEN m.Image.val.ID ELSE ""
           [] OTHER -> ""

\* if message == nil { return "" }; switch message.Type { ... }; return ""
ExtractMediaID(message) ==
    IF message.nil THEN ""
    ELSE LET m == message.val IN
         CASE m.Type = MediaType.Image ->
                  IF ~m.Image.nil THEN m.Image.val.ID ELSE ""
           [] m.Type = MediaType.Audio ->
                  IF ~m.Audio.nil THEN m.Audio.val.ID ELSE ""
           [] m.Type = MediaType.Video ->
                  IF ~m.Video.nil THEN m.Video.val.ID ELSE ""
           [] m.Type = MediaType.Document ->
                  IF ~m.Document.nil THEN m.Document.val.ID ELSE ""
           [] m.Type = MediaType.Sticker ->
                  IF ~m.Sticker.nil THEN m.Sticker.val.ID ELSE ""
           [] OTHER -> ""

\* a media payload with the given ID
MediaWithID(id) == AddrOf([Zero(WebhookMessageMedia) EXCEPT !.ID = id])

\* the messages the host passes: nil, and every type (the media types, one
\* other known type, one the package has no constant for, and none) with
\* every combination of populated media slots, each slot with an ID of its own
PassedMessages ==
    {NilPtr} \cup
    {AddrOf([Zero(WebhookMessage) EXCEPT
                !.Type = t,
                !.Image = IF "image" \in slots THEN MediaWithID("img-1") ELSE NilPtr,
                !.Audio = IF "audio" \in slots THEN MediaWithID("aud-2") ELSE NilPtr,
                !.Video = IF "video" \in slots THEN MediaWithID("vid-3") ELSE NilPtr,
                !.Document = IF "document" \in slots THEN MediaWithID("doc-4") ELSE NilPtr,
                !.Sticker = IF "sticker" \in slots THEN MediaWithID("stk-5") ELSE NilPtr]) :
        t \in {MediaType[k] : k \in DOMAIN MediaType}
                 \cup {"text", "future_type", ""},
        slots \in SUBSET {"image", "audio", "video", "document", "sticker"}}

\* the host calls ExtractMediaID
CallExtractMediaID ==
    /\ lib.op = "none"
    /\ pc = "idle"
    /\ \E message \in PassedMessages :
           lib' = [op |-> "ExtractMediaID", message |-> message,
                   id |-> ExtractMediaID(message)]
    /\ UNCHANGED <<wh, pc, req, body, sigOK, request, w, calls, hook, handled,
                   depth, trace, other>>

\* an ActionParameters interface value: nil, or a dynamic type with a
\* pointer, which may itself be nil
\* (kinds "nil", "flow" and "cta_url")
Parameters(kind, ptr) == [kind |-> kind, ptr |-> ptr]

\* func (fp *FlowParameters) ActionType() / func (cp *CTAURLParameters) ActionType()
ActionType(parameters) ==
    IF parameters.kind = "flow" THEN "flow" ELSE "cta_url"

\* func (fp *FlowParameters) Validate() error
FlowParametersValidate(fp) ==
    IF fp.nil THEN "flow parameters cannot be nil"
    ELSE IF fp.val.FlowMessageVersion = "" THEN "flow_message_version is required"
    ELSE IF fp.val.FlowToken = "" THEN "flow_token is required"
    ELSE IF fp.val.FlowID = "" THEN "flow_id is required"
    ELSE IF fp.val.FlowCTA = "" THEN "flow_cta is required"
    ELSE IF fp.val.FlowAction = "" THEN "flow_action is required"
    ELSE NoError

\* func (cp *CTAURLParameters) Validate() error
CTAURLParametersValidate(cp) ==
    IF cp.nil THEN "CTA URL parameters cannot be nil"
    ELSE IF cp.val.DisplayText = "" THEN "display_text is required"
    ELSE IF cp.val.URL = "" THEN "url is required"
    ELSE NoError

\* action.Parameters.Validate(), dispatched on the dynamic type
Validate(parameters) ==
    IF parameters.kind = "flow"
    THEN FlowParametersValidate(parameters.ptr)
    ELSE CTAURLParametersValidate(parameters.ptr)

\* the parameters accepted without their own validation
ValidateActionUnvalidated(action) ==
    IF action.nil THEN "action cannot be nil"
    ELSE IF action.val.Parameters.kind # "nil"
    THEN LET expectedType == ActionType(action.val.Parameters) IN
         IF action.val.Name # "" /\ action.val.Name # expectedType
         THEN "action name does not match parameter type"
         ELSE NoError
    ELSE NoError

\* func ValidateAction(action *Action) error
ValidateAction(action) ==
    IF action.nil THEN "action cannot be nil"
    ELSE IF action.val.Parameters.kind # "nil"
    THEN LET expectedType == ActionType(action.val.Parameters) IN
         IF action.val.Name # "" /\ action.val.Name # expectedType
         THEN "action name does not match parameter type"
         ELSE IF Validate(action.val.Parameters) # NoError
         THEN "parameter validation failed"
         ELSE NoError
    ELSE NoError

\* the values of a string field the host passes: empty and not
FieldValues == {"", "v"}

\* the *FlowParameters the host passes
PassedFlowParameters ==
    {NilPtr} \cup
    {AddrOf([FlowMessageVersion |-> v, FlowToken |-> t, FlowID |-> i,
             FlowCTA |-> c, FlowAction |-> a]) :
        v \in FieldValues, t \in FieldValues, i \in FieldValues,
        c \in FieldValues, a \in FieldValues}

\* the *CTAURLParameters the host passes
PassedCTAURLParameters ==
    {NilPtr} \cup
    {AddrOf([DisplayText |-> d, URL |-> u]) : d \in FieldValues, u \in FieldValues}

\* the *Action the host passes
PassedActions ==
    {NilPtr} \cup
    {AddrOf([Name |-> n, Parameters |-> p]) :
        n \in {"", "flow", "cta_url", "list"},
        p \in {Parameters("nil", NilPtr)}
                \cup {Parameters("flow", fp) : fp \in PassedFlowParameters}
                \cup {Parameters("cta_url", cp) : cp \in PassedCTAURLParameters}}

\* the host calls ValidateAction
CallValidateAction ==
    /\ lib.op = "none"
    /\ pc = "idle"
    /\ \E action \in PassedActions : 
           lib' = [op |-> "ValidateAction", action |-> action,
                   err |-> ValidateAction(action)]
    /\ UNCHANGED <<wh, pc, req, body, sigOK, request, w, calls, hook, handled,
                   depth, trace, other>>

\* what happens to a request handed to sendRequest: it cannot be built, the
\* transport fails, or the API answers 200 or an error
Replies == {"unbuilt", "transport", "200", "400"}

\* sendRequest: wa.Client.Do(req) is reached unless building the request failed
sendRequest(reply) ==
    CASE reply = "unbuilt" -> [sent |-> 0, err |-> "request not built"]
      [] reply = "transport" -> [sent |-> 1, err |-> "transport error"]
      [] reply = "400" -> [sent |-> 1, err |-> "WhatsApp API error"]
      [] OTHER -> [sent |-> 1, err |-> NoError]

\* a call that panicked on a nil params
Panicked(op, params) ==
    [op |-> op, params |-> params, panicked |-> TRUE, invalid |-> NoError,
     sent |-> 0, err |-> NoError]

\* the outcome of a Send call whose action ValidateAction answered with invalid
SendCall(op, params, invalid, wrapped, reply) ==
    IF invalid # NoError
    THEN [op |-> op, params |-> params, panicked |-> FALSE, invalid |-> invalid,
          sent |-> 0, err |-> wrapped]
    ELSE [op |-> op, params |-> params, panicked |-> FALSE, invalid |-> invalid,
          sent |-> sendRequest(reply).sent, err |-> sendRequest(reply).err]

\* the *SendInteractiveFlowParams the host passes
PassedFlowSends ==
    {NilPtr} \cup {AddrOf([FlowParameters |-> fp]) : fp \in PassedFlowParameters}

\* the *SendInteractiveCTAURLParams the host passes
PassedCTAURLSends ==
    {NilPtr} \cup
    {AddrOf([DisplayText |-> d, URL |-> u]) : d \in FieldValues, u \in FieldValues}

\* func (wa *Client) SendInteractiveFlow(ctx, recipient, params)
SendInteractiveFlow ==
    /\ lib.op = "none"
    /\ pc = "idle"
    /\ \E params \in PassedFlowSends, reply \in Replies :
           lib' = IF params.nil
                  THEN Panicked("SendInteractiveFlow", params)
                  ELSE LET action ==
                               AddrOf([Name |-> "flow",
                                       Parameters |->
                                           Parameters("flow", params.val.FlowParameters)])
                       IN  SendCall("SendInteractiveFlow", params,
                                    ValidateAction(action), "invalid flow action",
                                    reply)
    /\ UNCHANGED <<wh, pc, req, body, sigOK, request, w, calls, hook, handled,
                   depth, trace, other>>

\* func (wa *Client) SendInteractiveCTAURL(ctx, recipient, params)
SendInteractiveCTAURL ==
    /\ lib.op = "none"
    /\ pc = "idle"
    /\ \E params \in PassedCTAURLSends, reply \in Replies :
           lib' = IF params.nil
                  THEN Panicked("SendInteractiveCTAURL", params)
                  ELSE LET action ==
                               AddrOf([Name |-> "cta_url",
                                       Parameters |->
                                           Parameters("cta_url",
                                               AddrOf([DisplayText |-> params.val.DisplayText,
                                                       URL |-> params.val.URL]))])
                       IN  SendCall("SendInteractiveCTAURL", params,
                                    ValidateAction(action), "invalid CTA URL action",
                                    reply)
    /\ UNCHANGED <<wh, pc, req, body, sigOK, request, w, calls, hook, handled,
                   depth, trace, other>>

\* the tokens html.Tokenizer yields for the text: FromHTML sees the text only
\* through them (types "Text", "StartTag", "EndTag", "SelfClosingTag"; an
\* attribute is a Key and a Val)
Token(type, data, attr) == [type |-> type, Data |-> data, Attr |-> attr]

\* the tokens of the texts the host passes: two texts, anchors with one href,
\* with two hrefs after another attribute, and with none, a closing anchor,
\* tags with a mapping, and a self-closing anchor
HtmlTokens ==
    {Token("Text", "x", <<>>),
     Token("Text", "y", <<>>),
     Token("StartTag", "a", <<[Key |-> "href", Val |-> "u"]>>),
     Token("StartTag", "a", <<[Key |-> "class", Val |-> "c"],
                              [Key |-> "href", Val |-> "v"],
                              [Key |-> "href", Val |-> "w"]>>),
     Token("StartTag", "a", <<[Key |-> "name", Val |-> "n"]>>),
     Token("EndTag", "a", <<>>),
     Token("StartTag", "b", <<>>),
     Token("EndTag", "i", <<>>),
     Token("SelfClosingTag", "a", <<[Key |-> "href", Val |-> "u"]>>)}

\* the token sequences of the texts the host passes
Texts == UNION {[1..n -> HtmlTokens] : n \in 0..MaxTokens}

simpleMappings == [b |-> "*", i |-> "_", s |-> "~"]

\* what one round of the token loop does to out, links and currentLink
tokenStep(st, token, collect) ==
    CASE token.type = "Text" ->
             [out |-> st.out \o token.Data,
              links |-> st.links,
              currentLink |->
                  IF st.currentLink.nil
                  THEN st.currentLink
                  ELSE AddrOf([Link |-> st.currentLink.val.Link,
                               Text |-> st.currentLink.val.Text \o token.Data])]
      [] token.type \in {"StartTag", "EndTag"} ->
             IF token.Data = "a"
             THEN IF token.type = "StartTag" /\ collect
                  THEN LET hrefs == {k \in 1..Len(token.Attr) :
                                        token.Attr[k].Key = "href"}
                       IN  IF hrefs = {}
                           THEN st
                           ELSE LET first == CHOOSE k \in hrefs :
                                                 \A l \in hrefs : k <= l
                                IN  [st EXCEPT !.currentLink =
                                        AddrOf([Link |-> token.Attr[first].Val,
                                                Text |-> ""])]
                  ELSE IF token.type = "EndTag" /\ ~st.currentLink.nil
                  THEN [st EXCEPT !.links = Append(@, st.currentLink.val),
                                  !.currentLink = NilPtr]
                  ELSE st
             ELSE IF token.Data \in DOMAIN simpleMappings
                  THEN [st EXCEPT !.out = @ \o simpleMappings[token.Data]]
                  ELSE st
      [] OTHER -> st

RECURSIVE tokenLoop(_, _, _, _)
\* for { tokenType := tokenizer.Next(); ... }: the loop from token i on, left
\* at the ErrorToken that ends the input
tokenLoop(tokens, i, st, collect) ==
    IF i > Len(tokens)
    THEN st
    ELSE tokenLoop(tokens, i + 1, tokenStep(st, tokens[i], collect), collect)

\* CollectLinks called whenever it is set
FromHTMLAlwaysCollects(tokens, collect) ==
    LET st == tokenLoop(tokens, 1,
                        [out |-> "", links |-> <<>>, currentLink |-> NilPtr],
                        collect)
    IN  [out |-> st.out,
         collected |-> IF collect THEN <<st.links>> ELSE <<>>]

\* func FromHTML(text string, opts ...OptionFn) string: the text returned and
\* the lists CollectLinks was called with, in order
FromHTML(tokens, collect) ==
    LET st == tokenLoop(tokens, 1,
                        [out |-> "", links |-> <<>>, currentLink |-> NilPtr],
                        collect)
    IN  [out |-> st.out,
         collected |-> IF collect /\ Len(st.links) > 0 THEN <<st.links>> ELSE <<>>]

\* the host calls FromHTML, with CollectLinks set or not
CallFromHTML ==
    /\ lib.op = "none"
    /\ pc = "idle"
    /\ \E tokens \in Texts, collect \in BOOLEAN :
           lib' = [op |-> "FromHTML", tokens |-> tokens, collect |-> collect,
                   out |-> FromHTML(tokens, collect).out,
                   collected |-> FromHTML(tokens, collect).collected]
    /\ UNCHANGED <<wh, pc, req, body, sigOK, request, w, calls, hook, handled,
                   depth, trace, other>>

\* the call returns to the host
Return ==
    /\ lib.op # "none"
    /\ lib' = NoCall
    /\ UNCHANGED <<wh, pc, req, body, sigOK, request, w, calls, hook, handled,
                   depth, trace, other>>

LibNext ==
    \/ CallValidateMediaSize
    \/ CallValidateMimeType
    \/ CallExtractMediaID
    \/ CallValidateAction
    \/ SendInteractiveFlow
    \/ SendInteractiveCTAURL
    \/ CallFromHTML
    \/ Return

LibSpec == Init /\ [][LibNext]_vars

-----------------------------------------------------------------------------
(* Properties *)

\* the steps handleWebhookPOST takes when nothing fails
PostSteps == <<"read", "verify", "decode", "handler">>
Attempted(step) == \E i \in 1..Len(trace) : trace[i] = step
\* verifySignature has just returned to handleWebhookPOST
Verified == Len(trace) = 2 /\ trace[2] = "verify" /\ pc \in {"decode", "hook"} /\ calls.err = 0
IsPost == req.Method = "POST"
IsGet == req.Method = "GET"
HasPrefix(s, prefix) == Len(s) >= Len(prefix) /\ SubSeq(s, 1, Len(prefix)) = prefix
\* what a sender holding the application secret puts in a signature header
Signature(prefix, hashFunc, data) ==
    prefix \o EncodeToString(hmacSum(hashFunc, wh.AppSecret, data))
\* the request carries the signature of its own body under the header that
\* is evaluated
Authentic ==
    IF Get(req.Sig256) # <<>>
    THEN Get(req.Sig256) = Signature(Sha256Prefix, "sha256", req.Body)
    ELSE Get(req.Sig1) # <<>> /\ Get(req.Sig1) = Signature(Sha1Prefix, "sha1", req.Body)
DefaultResponse(class) ==
    [status |-> DefaultError(class).code, body |-> DefaultError(class).msg \o <<"\n">>]

\* C1: in a POST whose signature verification returned false (or has not
\* returned true), Handler.HandleWebhook is not invoked and is not about to be.
C1_UnverifiedNeverHandled ==
    (IsPost /\ ~sigOK) => (calls.handler = 0 /\ pc \notin {"decode", "handler"})

\* a POST with a decodable body and a failed verification has ended without
\* the Handler
C1_Witness ==
    /\ IsPost /\ pc = "done" /\ Attempted("verify") /\ ~sigOK
    /\ body = <<"{", "}">> /\ calls.handler = 0

\* C2: a POST takes the steps read, verify, decode, handler in this order, a
\* step only after every earlier one succeeded; a POST with an invalid
\* signature and a malformed body is reported as "invalid signature" with the
\* default 403, and is never decoded.
C2_StepOrder ==
    IsPost =>
        /\ Len(trace) <= Len(PostSteps)
        /\ trace = SubSeq(PostSteps, 1, Len(trace))
        /\ Attempted("verify") => ~req.BodyErr
        /\ Attempted("decode") => (~req.BodyErr /\ Authentic)
        /\ Attempted("handler") => (~req.BodyErr /\ Authentic /\ ~Unmarshal(req.Body).err)
        /\ (hook.class # "none") => ~Attempted("handler")
        /\ (Attempted("verify") /\ Unmarshal(req.Body).err /\ ~Authentic) =>
              /\ ~Attempted("decode")
              /\ hook.class = "signature"
              /\ hook.err = "invalid signature"
              /\ (pc = "done" /\ ~hook.ret /\ ~hook.wrote)
                    => w = DefaultResponse("signature")

\* an invalid signature on a malformed body has been answered 403
C2_Witness ==
    /\ IsPost /\ pc = "done" /\ hook.class = "signature"
    /\ w.status = StatusForbidden /\ calls.core = 1
    /\ Unmarshal(req.Body).err /\ ~Authentic

\* C3: with the ErrHandler NewWebhook installs, HandleWebhookErr is entered
\* once per failing POST, returns false, and the request ends with the
\* default response of its failure class.
C3_DefaultHookReturnsFalse ==
    (IsPost /\ wh.ErrHandler = "self") =>
        /\ calls.err <= 1
        /\ pc # "crashed"
        /\ (pc = "done" /\ hook.class # "none") =>
              (~hook.ret /\ w = DefaultResponse(hook.class))

\* C4: a POST ends with the Handler invoked once and the error hook not at
\* all, or the error hook invoked once and the Handler not at all.
C4_ExactlyOneOutcome ==
    IsPost =>
        /\ calls.handler + calls.err <= 1
        /\ pc # "crashed"
        /\ pc = "done" => calls.handler + calls.err = 1

\* C5 as claimed: on a failure path of a POST the host's hook is invoked at
\* most once and the response is written at most once, the hook's write and
\* the core's default response counted together.
C5_AtMostOneWrite ==
    (IsPost /\ hook.class # "none") => (calls.host <= 1 /\ calls.writes <= 1)

\* C5 as amended: on a failure path handleWebhookPOST calls HandleWebhookErr
\* at most once, a host hook is invoked at most once, the core writes at most
\* one default response, and it writes one exactly when the hook returned
\* false; the response is written at most once in all unless the hook wrote
\* and returned false, and then exactly twice.
C5_AtMostOneCoreWrite ==
    (IsPost /\ hook.class # "none") =>
        /\ calls.post <= 1 /\ calls.host <= 1 /\ calls.core <= 1
        /\ pc = "done" => (calls.core = 1 <=> ~hook.ret)
        /\ ~(hook.wrote /\ ~hook.ret) => calls.writes <= 1
        /\ (pc = "done" /\ hook.wrote /\ ~hook.ret) => calls.writes = 2

\* the host's hook wrote the response and returned true: one write in all
C5_Witness ==
    /\ IsPost /\ pc = "done" /\ wh.ErrHandler = "host"
    /\ hook.wrote /\ hook.ret /\ calls.writes = 1 /\ calls.core = 0

\* C6: with neither signature header in the request, verifySignature
\* returns false, whatever the body and the application secret.
C6_FailClosed ==
    (Verified /\ req.Sig256 = <<>> /\ req.Sig1 = <<>>) => ~sigOK

\* no header, empty body, empty secret: verification has failed
C6_Witness ==
    /\ Verified /\ req.Sig256 = <<>> /\ req.Sig1 = <<>>
    /\ body = <<>> /\ wh.AppSecret = <<>> /\ ~sigOK /\ hook.class = "signature"

\* C7: with both signature headers present, verifySignature returns what
\* the SHA-256 header alone gives: true iff that header is "sha256=" and the
\* hex HMAC-SHA256 of the body, whatever the SHA-1 header holds.
C7_Sha256Precedence ==
    (Verified /\ Get(req.Sig256) # <<>> /\ Get(req.Sig1) # <<>>) =>
        (sigOK <=> Get(req.Sig256) = Signature(Sha256Prefix, "sha256", body))

\* a valid SHA-1 header next to an invalid SHA-256 header: not verified
C7_Witness ==
    /\ Verified /\ ~sigOK
    /\ Get(req.Sig1) = Signature(Sha1Prefix, "sha1", body)
    /\ Get(req.Sig256) # <<>>
    /\ Get(req.Sig256) # Signature(Sha256Prefix, "sha256", body)

\* C8: a header X-Hub-Signature-256 made of "sha256=" and the hex
\* HMAC-SHA256 of a body B under the application secret verifies against B
\* and against no other body.
C8_RoundTrip ==
    Verified =>
        \A B \in Bodies :
            Get(req.Sig256) = Signature(Sha256Prefix, "sha256", B) => (sigOK <=> B = body)

\* the signature of "{}" was presented with another body of the same length
C8_Witness ==
    /\ Verified /\ ~sigOK
    /\ Get(req.Sig256) = Signature(Sha256Prefix, "sha256", <<"{", "}">>)
    /\ Len(body) = 2 /\ body # <<"{", "}">>

\* C9: a header value verifies only if it starts with the literal prefix
\* of its header's algorithm; the correct digest behind a missing, upper-case
\* or other-algorithm prefix does not verify.
C9_ExactPrefix ==
    Verified =>
        /\ sigOK => IF Get(req.Sig256) # <<>>
                    THEN HasPrefix(Get(req.Sig256), Sha256Prefix)
                    ELSE HasPrefix(Get(req.Sig1), Sha1Prefix)
        /\ \A p \in SigPrefixes \ {Sha256Prefix} :
              Get(req.Sig256) = Signature(p, "sha256", body) => ~sigOK
        /\ \A p \in SigPrefixes \ {Sha1Prefix} :
              (Get(req.Sig256) = <<>> /\ Get(req.Sig1) = Signature(p, "sha1", body)) => ~sigOK

\* the correct SHA-256 digest behind "SHA256=" was refused
C9_Witness ==
    /\ Verified /\ ~sigOK
    /\ Get(req.Sig256) = Signature(<<"S","H","A","2","5","6","=">>, "sha256", body)

\* C10: a GET is answered 200 with the challenge as body iff hub.mode is
\* "subscribe" and hub.verify_token is the webhook secret, else 403 with an
\* empty body.
C10_Challenge ==
    (IsGet /\ pc = "done") =>
        IF Get(req.Mode) = Subscribe /\ Get(req.VerifyToken) = wh.WebhookSecret
        THEN w = [status |-> StatusOK, body |-> Get(req.Challenge)]
        ELSE w = [status |-> StatusForbidden, body |-> <<>>]

\* a matching handshake with an empty challenge: 200 and an empty body
C10_Witness ==
    /\ IsGet /\ pc = "done" /\ req.Mode = <<Subscribe>>
    /\ req.VerifyToken = <<wh.WebhookSecret>> /\ req.Challenge = << <<>> >>
    /\ w = [status |-> StatusOK, body |-> <<>>]

\* the arguments of the one call of the Handler, once ServeHTTP has returned
Handled == pc = "done" /\ calls.handler = 1
\* the first change value of the Envelope the Handler received
FirstValue == handled.request.Entry.items[1].Changes.items[1].Value
Present(slice) == ~slice.nil
\* what the response holds when the core has written the default response
\* of a failure, after the host's hook wrote or did not write
AfterHook(code, msg) ==
    IF hook.wrote
    THEN [status |-> 500, body |-> <<"h">> \o msg \o <<"\n">>]
    ELSE [status |-> code, body |-> msg \o <<"\n">>]

\* C11: a request whose method is neither GET nor POST is answered 405 with
\* an empty body; neither the error hook nor the Handler is invoked, the body
\* is not read and no signature is checked.
C11_MethodNotAllowed ==
    (req.Method \notin {"", "GET", "POST"}) =>
        /\ pc = "done"
        /\ w = [status |-> 405, body |-> <<>>]
        /\ calls.handler = 0 /\ calls.post = 0 /\ calls.err = 0 /\ calls.host = 0
        /\ hook = NoHook /\ handled = NotHandled
        /\ body = <<>> /\ ~sigOK /\ request = ZeroRequest
        /\ trace = <<"notallowed">>

\* a "get" in lower case with a body and its valid signature was refused
C11_Witness ==
    /\ req.Method = "get" /\ pc = "done"
    /\ req.Body = <<"{", "}">>
    /\ req.Sig256 = <<Signature(Sha256Prefix, "sha256", req.Body)>>
    /\ w.status = StatusMethodNotAllowed /\ body = <<>>

\* C12: when the error hook has returned false, the core writes the default
\* response of the failure class and of nothing else: 400 "Failed to read
\* request body" for a body that cannot be read, 403 "Invalid signature" for
\* a failed verification, 400 "Failed to parse request body" for a body that
\* does not decode.
C12_DefaultResponses ==
    (pc = "done" /\ hook.class # "none" /\ ~hook.ret) =>
        /\ calls.core = 1
        /\ hook.class \in {"read", "signature", "decode"}
        /\ hook.class = "read" <=> req.BodyErr
        /\ hook.class = "signature" <=> (~req.BodyErr /\ ~sigOK)
        /\ hook.class = "decode" <=> (~req.BodyErr /\ sigOK)
        /\ hook.class = "read" => w = AfterHook(400, MsgReadBody)
        /\ hook.class = "signature" => w = AfterHook(403, MsgInvalidSignature)
        /\ hook.class = "decode" => w = AfterHook(400, MsgParseBody)

\* a host hook returned false without writing on a body that does not
\* decode: 400 and the parse message
C12_Witness ==
    /\ pc = "done" /\ hook.class = "decode" /\ ~hook.ret /\ ~hook.wrote
    /\ wh.ErrHandler = "host"
    /\ w = [status |-> 400, body |-> MsgParseBody \o <<"\n">>]

\* C13: when the error hook has returned true, the core writes neither a
\* status nor a byte, on each failure class: the response holds what the hook
\* wrote and nothing else.
C13_HookOwnsResponse ==
    (hook.class # "none" /\ hook.ret) =>
        /\ calls.core = 0
        /\ calls.writes = (IF hook.wrote THEN 1 ELSE 0)
        /\ w = (IF hook.wrote THEN [status |-> 500, body |-> <<"h">>] ELSE NoResponse)

\* the hook returned true without writing on a failed verification: the
\* response is untouched when ServeHTTP returns
C13_Witness ==
    /\ pc = "done" /\ hook.class = "signature" /\ hook.ret /\ ~hook.wrote
    /\ w = NoResponse /\ calls.core = 0

\* C14: a POST whose body is read, whose signature verifies and whose body
\* decodes has the Handler invoked exactly once, with the decoded Envelope and
\* the context of the request; the core writes nothing before or after, and
\* the error hook is not invoked.
C14_HandledOnce ==
    (IsPost /\ ~req.BodyErr /\ Authentic /\ ~Unmarshal(req.Body).err) =>
        /\ calls.core = 0 /\ calls.post = 0 /\ calls.err = 0 /\ hook = NoHook
        /\ pc \in {"read", "verify", "decode", "handler", "done"}
        /\ pc # "done" => (calls.handler = 0 /\ w = NoResponse /\ handled = NotHandled)
        /\ pc = "done" =>
              /\ calls.handler = 1
              /\ handled.ctx = req.Ctx
              /\ handled.request = Unmarshal(req.Body).request
              /\ w \in {NoResponse, [status |-> 200, body |-> <<"o", "k">>]}
              /\ calls.writes = (IF w = NoResponse THEN 0 ELSE 1)

\* the example notification arrived under the second context and a Handler
\* that writes nothing handled it: the response is untouched
C14_Witness ==
    /\ IsPost /\ pc = "done" /\ req.Body = Doc.Example /\ req.Ctx = "ctx2"
    /\ calls.handler = 1 /\ handled.ctx = "ctx2"
    /\ handled.request.Object = "whatsapp_business_account"
    /\ w = NoResponse

\* C15: the hook receives no Envelope (nil) when the body cannot be read or
\* the signature fails, and a pointer to the Envelope of this request when
\* the body does not decode: still zero after a syntax error, filled as far
\* as the decoder got after a type error. The error of a read failure and of
\* a decode failure wraps the error of io.ReadAll or json.Unmarshal.
C15_HookArguments ==
    (hook.class # "none") =>
        /\ hook.class = "read" =>
              /\ hook.reqNil /\ request = ZeroRequest
              /\ hook.err = "reading body" /\ hook.wraps = "ReadError"
        /\ hook.class = "signature" =>
              /\ hook.reqNil /\ request = ZeroRequest
              /\ hook.err = "invalid signature"
        /\ hook.class = "decode" =>
              /\ ~hook.reqNil
              /\ hook.err = "unmarshalling request body"
              /\ hook.wraps \in {"SyntaxError", "UnmarshalTypeError"}
              /\ hook.wraps = "SyntaxError" => request = ZeroRequest
              /\ req.Body = Doc.ScalarEntry =>
                    request = [Object |-> "whatsapp_business_account", Entry |-> NilSlice]
              /\ req.Body = Doc.ScalarValue =>
                    /\ request.Object = "whatsapp_business_account"
                    /\ Len(request.Entry.items) = 1
                    /\ request.Entry.items[1].ID = "1"
                    /\ request.Entry.items[1].Changes.items[1].Field = "messages"
                    /\ request.Entry.items[1].Changes.items[1].Value = Zero(WebhookValue)

\* a change whose value is a number: the hook received the Envelope with the
\* entry and the field of the change filled in
C15_Witness ==
    /\ hook.class = "decode" /\ ~hook.reqNil /\ req.Body = Doc.ScalarValue
    /\ hook.wraps = "UnmarshalTypeError"
    /\ request.Entry.items[1].Changes.items[1].Field = "messages"

\* C16: a change value without the key "statuses" decodes to a nil Statuses,
\* one with "statuses": [] to a Statuses that is not nil and has length 0,
\* and likewise for messages, errors and contacts.
C16_PresenceFidelity ==
    Handled =>
        /\ req.Body = Doc.NoLists =>
              /\ ~Present(FirstValue.Statuses) /\ ~Present(FirstValue.Messages)
              /\ ~Present(FirstValue.Errors) /\ ~Present(FirstValue.Contacts)
        /\ req.Body = Doc.EmptyLists =>
              /\ Present(FirstValue.Statuses) /\ Len(FirstValue.Statuses.items) = 0
              /\ Present(FirstValue.Messages) /\ Len(FirstValue.Messages.items) = 0
              /\ Present(FirstValue.Errors) /\ Len(FirstValue.Errors.items) = 0
              /\ Present(FirstValue.Contacts) /\ Len(FirstValue.Contacts.items) = 0

\* the Handler received the value with four empty lists, all present
C16_Witness ==
    /\ Handled /\ req.Body = Doc.EmptyLists
    /\ FirstValue.Statuses = MakeSlice(<<>>) /\ FirstValue.Statuses # NilSlice

\* C17: a message of type "some_future_type" without payload decodes, is
\* present in the Envelope the Handler receives, and its Type is the marker
\* MessageTypeUnknown or MessageTypeUnsupported.
C17_FutureTypeMarked ==
    (IsPost /\ pc = "done" /\ sigOK /\ req.Body = Doc.FutureType) =>
        /\ calls.handler = 1
        /\ Len(FirstValue.Messages.items) = 1
        /\ FirstValue.Messages.items[1].Type \in {MessageTypeUnknown, MessageTypeUnsupported}

\* the correctly signed bodies in which an object or a list arrives as a
\* scalar
ShapeMismatches == {Doc.ScalarEntry, Doc.ScalarValue, Doc.ScalarText}

\* C18: fields no struct declares, at the top level or nested, are ignored
\* and the Handler is invoked with what the body holds without them; a field
\* typed as an object or a list that arrives as a scalar is a decode error:
\* the hook is called with the wrapped error of json.Unmarshal, the default
\* response is 400, and the Handler is not invoked.
C18_UnknownIgnoredShapeChecked ==
    (IsPost /\ sigOK /\ Attempted("decode")) =>
        /\ req.Body = Doc.UnknownFields =>
              /\ hook = NoHook /\ request = Unmarshal(Doc.Example).request
              /\ pc \in {"handler", "done"}
              /\ pc = "done" => (calls.handler = 1 /\ handled.request = request)
        /\ req.Body \in ShapeMismatches =>
              /\ hook.class = "decode" /\ calls.post = 1
              /\ hook.err = "unmarshalling request body"
              /\ hook.wraps = "UnmarshalTypeError"
              /\ calls.handler = 0 /\ pc # "handler" /\ handled = NotHandled
              /\ (pc = "done" /\ ~hook.ret) => w = AfterHook(400, MsgParseBody)

\* a message whose text is a string instead of an object was answered 400
\* without the Handler
C18_Witness ==
    /\ IsPost /\ pc = "done" /\ req.Body = Doc.ScalarText /\ hook.class = "decode"
    /\ w = [status |-> 400, body |-> MsgParseBody \o <<"\n">>] /\ calls.handler = 0

\* the member of a JSON object under a key, null if there is none
Member(j, key) ==
    IF \E i \in 1..Len(j.members) : j.members[i].key = key
    THEN j.members[CHOOSE i \in 1..Len(j.members) : j.members[i].key = key].val
    ELSE JNull
\* the elements of a JSON array, none for a value that is not an array
Elems(j) == IF j.t = "array" THEN j.elems ELSE <<>>
\* the bodies that are well-formed envelopes
WellFormed ==
    {Doc.Example, Doc.NoLists, Doc.EmptyLists, Doc.FutureType, Doc.UnknownFields, Doc.TwoEntries}

\* C19: the Envelope the Handler receives for a correctly signed,
\* well-formed body has as many entries, changes per entry and messages per
\* change as the body, in the same order, each message with its type and its
\* payload: the example gives one entry, one change, one message of type
\* text with body "hi".
C19_StructurePreserved ==
    (Handled /\ req.Body \in WellFormed) =>
        /\ LET entries == Elems(Member(ParseValue(req.Body, 1).val, "entry"))
               Entry == handled.request.Entry.items
           IN  /\ Len(Entry) = Len(entries)
               /\ \A i \in 1..Len(entries) :
                    LET changes == Elems(Member(entries[i], "changes"))
                        Changes == Entry[i].Changes.items
                    IN  /\ Entry[i].ID = Member(entries[i], "id").s
                        /\ Len(Changes) = Len(changes)
                        /\ \A k \in 1..Len(changes) :
                             LET messages == Elems(Member(Member(changes[k], "value"), "messages"))
                                 Messages == Changes[k].Value.Messages.items
                             IN  /\ Len(Messages) = Len(messages)
                                 /\ \A m \in 1..Len(messages) :
                                      /\ Messages[m].ID = Member(messages[m], "id").s
                                      /\ Messages[m].Type = Member(messages[m], "type").s
        /\ req.Body = Doc.Example =>
              /\ Len(handled.request.Entry.items) = 1
              /\ Len(handled.request.Entry.items[1].Changes.items) = 1
              /\ Len(FirstValue.Messages.items) = 1
              /\ FirstValue.Messages.items[1].Type = "text"
              /\ FirstValue.Messages.items[1].Text = AddrOf([Body |-> "hi"])
              /\ FirstValue.Messages.items[1].Image = NilPtr
        /\ req.Body = Doc.TwoEntries =>
              /\ Len(FirstValue.Messages.items) = 2
              /\ FirstValue.Messages.items[1].Type = "image"
              /\ FirstValue.Messages.items[1].Image.val.ID = "img1"
              /\ FirstValue.Messages.items[1].Text = NilPtr
              /\ FirstValue.Messages.items[2].Type = "text"
              /\ FirstValue.Messages.items[2].Text = AddrOf([Body |-> "hi"])
              /\ handled.request.Entry.items[2].ID = "3"

\* two entries, the first with an image and a text message in this order
C19_Witness ==
    /\ Handled /\ req.Body = Doc.TwoEntries
    /\ Len(handled.request.Entry.items) = 2
    /\ FirstValue.Messages.items[1].ID = "m2" /\ FirstValue.Messages.items[2].ID = "m1"

\* C20: a GET does nothing but write its response: the body is not read, no
\* signature is checked, nothing is decoded, and neither the Handler nor the
\* error hook is invoked, whatever the query parameters, headers and body.
C20_ChallengeOnly ==
    IsGet =>
        /\ pc = "done"
        /\ body = <<>> /\ ~sigOK /\ request = ZeroRequest
        /\ handled = NotHandled /\ hook = NoHook
        /\ calls.handler = 0 /\ calls.post = 0 /\ calls.err = 0 /\ calls.host = 0
        /\ calls.writes = 1
        /\ trace = <<"challenge">>

\* a GET carrying a body and its valid signature was answered as a challenge
C20_Witness ==
    /\ IsGet /\ pc = "done" /\ req.Body = <<"{", "}">>
    /\ req.Sig256 = <<Signature(Sha256Prefix, "sha256", req.Body)>>
    /\ body = <<>> /\ w.status = StatusForbidden

\* what the host's Handler and hook may do: write or not, return true or
\* false
Choices == [handlerWrote : BOOLEAN, hookWrote : BOOLEAN, hookRet : BOOLEAN]
\* r carries the signature of its own body under key, in the header that is
\* evaluated
AuthenticUnder(key, r) ==
    IF Get(r.Sig256) # <<>>
    THEN Get(r.Sig256) = Sha256Prefix \o EncodeToString(hmacSum("sha256", key, r.Body))
    ELSE /\ Get(r.Sig1) # <<>>
         /\ Get(r.Sig1) = Sha1Prefix \o EncodeToString(hmacSum("sha1", key, r.Body))
\* the step at which a POST fails on a Webhook, "none" if it reaches the
\* Handler
FailureOf(webhook, r) ==
    IF r.BodyErr THEN "read"
    ELSE IF ~AuthenticUnder(webhook.AppSecret, r) THEN "signature"
    ELSE IF Unmarshal(r.Body).err THEN "decode"
    ELSE "none"
ExpectedDefault(class) ==
    CASE class = "read" -> [status |-> 400, body |-> MsgReadBody \o <<"\n">>]
      [] class = "signature" -> [status |-> 403, body |-> MsgInvalidSignature \o <<"\n">>]
      [] OTHER -> [status |-> 400, body |-> MsgParseBody \o <<"\n">>]
Outcome(rw, handler, class, ret, crashed) ==
    [w |-> rw, handler |-> handler, class |-> class, ret |-> ret, crashed |-> crashed]
\* how a POST that fails at class ends under an ErrHandler
FailedAs(class, errHandler, ch) ==
    IF errHandler = "self" THEN Outcome(NoResponse, 0, class, FALSE, TRUE)
    ELSE IF errHandler = "nil" THEN Outcome(ExpectedDefault(class), 0, class, FALSE, FALSE)
    ELSE IF ch.hookRet
         THEN Outcome(IF ch.hookWrote THEN [status |-> 500, body |-> <<"h">>] ELSE NoResponse,
                      0, class, TRUE, FALSE)
         ELSE Outcome(IF ch.hookWrote
                      THEN [status |-> 500, body |-> <<"h">> \o ExpectedDefault(class).body]
                      ELSE ExpectedDefault(class),
                      0, class, FALSE, FALSE)
\* the outcomes of request r served alone by a Webhook, over what the host's
\* Handler and hook may do
Served(webhook, r) ==
    IF r.Method = "GET"
    THEN {Outcome(IF Get(r.Mode) = Subscribe /\ Get(r.VerifyToken) = webhook.WebhookSecret
                  THEN [status |-> 200, body |-> Get(r.Challenge)]
                  ELSE [status |-> 403, body |-> <<>>],
                  0, "none", FALSE, FALSE)}
    ELSE IF r.Method # "POST"
    THEN {Outcome([status |-> 405, body |-> <<>>], 0, "none", FALSE, FALSE)}
    ELSE LET class == FailureOf(webhook, r) IN
         IF class = "none"
         THEN {Outcome(IF ch.handlerWrote THEN [status |-> 200, body |-> <<"o", "k">>]
                       ELSE NoResponse, 1, "none", FALSE, FALSE) : ch \in Choices}
         ELSE {FailedAs(class, webhook.ErrHandler, ch) : ch \in Choices}
\* the outcome of the request being served
Observed == Outcome(w, calls.handler, hook.class, hook.ret, pc = "crashed")
Ended == pc \in {"done", "crashed"}

C23_EmptyBodyVerifies ==
    (IsPost /\ ~req.BodyErr /\ req.Body = <<>> /\ Attempted("verify") /\ Authentic) =>
        /\ sigOK
        /\ Verified => pc = "decode"
        /\ hook.class \in {"none", "decode"}
        /\ Attempted("decode") =>
              /\ hook.class = "decode" /\ hook.wraps = "SyntaxError" /\ calls.handler = 0
              /\ (pc = "done" /\ ~hook.ret) => w = AfterHook(400, MsgParseBody)

\* the signed empty body was answered 400 and the parse message
C23_Witness ==
    /\ IsPost /\ pc = "done" /\ req.Body = <<>> /\ sigOK /\ hook.class = "decode"
    /\ Get(req.Sig1) = <<>>
    /\ Get(req.Sig256) = Signature(Sha256Prefix, "sha256", <<>>)
    /\ w = [status |-> 400, body |-> MsgParseBody \o <<"\n">>]

\* C27: an X-Hub-Signature-256 header with an empty value counts as absent:
\* verifySignature returns what the X-Hub-Signature header gives, true iff
\* that one is "sha1=" and the hex HMAC-SHA1 of the body.
C27_EmptyHeaderIsAbsent ==
    (Verified /\ req.Sig256 = << <<>> >>) =>
        (sigOK <=> Get(req.Sig1) = Signature(Sha1Prefix, "sha1", body))

\* an empty SHA-256 header next to a valid SHA-1 header: verified
C27_Witness ==
    /\ Verified /\ req.Sig256 = << <<>> >> /\ sigOK
    /\ Get(req.Sig1) = Signature(Sha1Prefix, "sha1", body)

\* C28: a query parameter that is absent reads as the empty string: with an
\* empty WebhookSecret a GET with hub.mode=subscribe and no hub.verify_token
\* is answered 200 with the challenge, as one with an empty token is; with a
\* WebhookSecret that is not empty no GET without hub.verify_token is
\* answered 200.
C28_AbsentIsEmpty ==
    (IsGet /\ pc = "done" /\ req.VerifyToken \in {<<>>, << <<>> >>}) =>
        IF wh.WebhookSecret = <<>> /\ Get(req.Mode) = Subscribe
        THEN w = [status |-> 200, body |-> Get(req.Challenge)]
        ELSE w = [status |-> 403, body |-> <<>>]

\* no token, an empty secret: the challenge was echoed
C28_Witness ==
    /\ IsGet /\ pc = "done" /\ req.VerifyToken = <<>> /\ wh.WebhookSecret = <<>>
    /\ req.Mode = <<Subscribe>> /\ req.Challenge = << <<"c", "h">> >>
    /\ w = [status |-> 200, body |-> <<"c", "h">>]

\* C29: with a nil ErrHandler HandleWebhookErr calls nothing and returns
\* false, and the failing POST ends with the default response of its class;
\* with a hook of the host it calls that hook exactly once and returns what
\* the hook returned.
C29_NilAndHostHook ==
    (IsPost /\ hook.class # "none") =>
        /\ wh.ErrHandler = "nil" =>
              /\ calls.host = 0 /\ calls.err <= 1 /\ ~hook.ret /\ ~hook.wrote
              /\ pc \in {"hook", "hookret", "done"}
              /\ pc = "hook" => (calls.err = 0 /\ w = NoResponse)
              /\ pc = "hookret" => (calls.err = 1 /\ w = NoResponse)
              /\ pc = "done" => (calls.err = 1 /\ w = ExpectedDefault(hook.class))
        /\ wh.ErrHandler = "host" =>
              /\ calls.host <= 1 /\ calls.err <= 1
              /\ pc \in {"hook", "hosthook", "hookret", "done"}
              /\ pc \in {"hook", "hosthook"} => calls.host = 0
              /\ pc \in {"hookret", "done"} =>
                    (calls.host = 1 /\ calls.err = 1 /\ hook.ret = hook.hostRet)

\* the host's hook returned true and so did HandleWebhookErr
C29_Witness ==
    /\ IsPost /\ pc = "done" /\ wh.ErrHandler = "host"
    /\ hook.hostRet /\ hook.ret /\ calls.host = 1 /\ calls.core = 0

\* ServeHTTP and what it calls leave the Webhook as it is: only the host
\* assigns ErrHandler, while no request is in flight
WebhookKept == [][wh' # wh => (pc = "idle" /\ other.pc = "idle")]_vars

\* the request being served ends as it may end when it is served alone; a
\* request that ends with the process does so alone as well
EndsAsAlone ==
    IF pc = "crashed"
    THEN \E o \in Served(wh, req) : o.crashed
    ELSE Observed \in Served(wh, req)

\* C21: ServeHTTP keeps no state across requests and never modifies the
\* Webhook, so with two requests served at a time, in any interleaving, each
\* request ends with the hook and Handler invocations and the response it has
\* when it is served alone.
C21_SameAsAlone ==
    (other # NoGoroutine /\ Ended) => EndsAsAlone

\* C21 for the Webhooks whose ErrHandler is nil or a hook of the host
C21_SameAsAloneOwnHook ==
    (other # NoGoroutine /\ Ended /\ wh.ErrHandler # "self") => EndsAsAlone

\* the limit of each media family, and the MIME types of the family
MediaLimits ==
    {[max |-> MaxImageSize,
      types |-> {MimeType.ImageJPEG, MimeType.ImagePNG, MimeType.ImageWebP}],
     [max |-> MaxAudioSize,
      types |-> {MimeType.AudioAAC, MimeType.AudioMP4, MimeType.AudioMPEG,
                 MimeType.AudioAMR, MimeType.AudioOGG}],
     [max |-> MaxVideoSize, types |-> {MimeType.VideoMP4, MimeType.Video3GPP}],
     [max |-> MaxDocumentSize,
      types |-> {MimeType.DocumentPDF, MimeType.DocumentDOCX, MimeType.DocumentPPTX,
                 MimeType.DocumentXLSX}],
     [max |-> MaxStickerSize, types |-> {MimeType.StickerWebP}]}

\* the size is over the limit of a family the MIME type belongs to
OverLimit(mimeType, size) ==
    \E f \in MediaLimits : mimeType \in f.types /\ size > f.max

\* C24: for every supported MIME type and size ValidateMediaSize returns an
\* error iff the size is not positive or exceeds the maximum of the type
\* (image 5MB, audio 16MB, video 16MB, document 100MB, sticker 100KB), and
\* for a positive size it returns the unsupported MIME type error exactly
\* when ValidateMimeType rejects the MIME type.
C24_SizeLimits ==
    lib.op = "ValidateMediaSize" =>
        /\ ValidateMimeType(lib.mimeType) = NoError =>
               (lib.err # NoError <=>
                    (lib.size <= 0 \/ OverLimit(lib.mimeType, lib.size)))
        /\ lib.size > 0 =>
               (lib.err = ErrUnsupportedMimeType <=>
                    ValidateMimeType(lib.mimeType) # NoError)

\* the payload slot each media type names
MediaSlot ==
    [image |-> "Image", audio |-> "Audio", video |-> "Video",
     document |-> "Document", sticker |-> "Sticker"]

\* C25: ExtractMediaID returns the empty string for a nil message and for a
\* message whose Type is not a media type; otherwise it returns the ID of the
\* slot named by Type when that slot is populated and the empty string when
\* it is not, whatever other slots are populated.
C25_SlotByType ==
    lib.op = "ExtractMediaID" =>
        IF lib.message.nil
        THEN lib.id = ""
        ELSE LET m == lib.message.val IN
             IF m.Type \in DOMAIN MediaSlot
             THEN LET slot == m[MediaSlot[m.Type]] IN
                  lib.id = IF slot.nil THEN "" ELSE slot.val.ID
             ELSE lib.id = ""

\* a sticker message that also carries an image gives the sticker's ID
C25_Witness ==
    /\ lib.op = "ExtractMediaID"
    /\ ~lib.message.nil
    /\ lib.message.val.Type = "sticker"
    /\ ~lib.message.val.Image.nil
    /\ ~lib.message.val.Sticker.nil
    /\ lib.id = "stk-5"

\* the params of a Send call lack something ValidateAction requires
Missing ==
    IF lib.op = "SendInteractiveFlow"
    THEN \/ lib.params.val.FlowParameters.nil
         \/ \E f \in {"FlowMessageVersion", "FlowToken", "FlowID", "FlowCTA",
                      "FlowAction"} : lib.params.val.FlowParameters.val[f] = ""
    ELSE lib.params.val.DisplayText = "" \/ lib.params.val.URL = ""

\* SendInteractiveFlow and SendInteractiveCTAURL send no HTTP request when
\* ValidateAction fails
NothingSentWhenInvalid ==
    lib.op \in {"SendInteractiveFlow", "SendInteractiveCTAURL"} =>
        /\ lib.panicked => lib.sent = 0
        /\ (~lib.panicked /\ (lib.invalid # NoError \/ Missing)) =>
               (lib.sent = 0 /\ lib.err # NoError)

\* C26 as stated: ValidateAction returns nil only for a non-nil action whose
\* Parameters, if any, have an ActionType equal to the action's Name and pass
\* their own Validate; the Send functions send no HTTP request when
\* ValidateAction fails.
C26_ValidOnlyMatching ==
    /\ (lib.op = "ValidateAction" /\ lib.err = NoError) =>
           /\ ~lib.action.nil
           /\ lib.action.val.Parameters.kind # "nil" =>
                  /\ ActionType(lib.action.val.Parameters) = lib.action.val.Name
                  /\ Validate(lib.action.val.Parameters) = NoError
    /\ NothingSentWhenInvalid

\* C26, amended: ValidateAction returns nil only for a non-nil action whose
\* Parameters, if any, have an ActionType equal to the action's Name unless
\* the Name is empty, and pass their own Validate; the Send functions send no
\* HTTP request when ValidateAction fails.
C26_ValidOnlyMatchingOrUnnamed ==
    /\ (lib.op = "ValidateAction" /\ lib.err = NoError) =>
           /\ ~lib.action.nil
           /\ lib.action.val.Parameters.kind # "nil" =>
                  /\ \/ lib.action.val.Name = ""
                     \/ ActionType(lib.action.val.Parameters) = lib.action.val.Name
                  /\ Validate(lib.action.val.Parameters) = NoError
    /\ NothingSentWhenInvalid

\* an action without a Name and with valid flow parameters is accepted
C26_Witness ==
    /\ lib.op = "ValidateAction"
    /\ lib.err = NoError
    /\ ~lib.action.nil
    /\ lib.action.val.Name = ""
    /\ lib.action.val.Parameters.kind = "flow"

\* a flow message without FlowParameters is not sent
C26_NilFlowNotSent ==
    /\ lib.op = "SendInteractiveFlow"
    /\ ~lib.panicked
    /\ lib.params.val.FlowParameters.nil
    /\ lib.sent = 0
    /\ lib.err = "invalid flow action"

IsHrefStart(token) ==
    /\ token.type = "StartTag"
    /\ token.Data = "a"
    /\ \E k \in 1..Len(token.Attr) : token.Attr[k].Key = "href"

IsEndA(token) == token.type = "EndTag" /\ token.Data = "a"

\* the value of the first href attribute of a start tag
HrefOf(token) ==
    token.Attr[CHOOSE k \in 1..Len(token.Attr) :
                   /\ token.Attr[k].Key = "href"
                   /\ \A l \in 1..(k - 1) : token.Attr[l].Key # "href"].Val

\* the anchor start tags with href that the closing anchor tag at j follows
\* with no other closing anchor tag in between
Openers(tokens, j) ==
    {i \in 1..(j - 1) :
        /\ IsHrefStart(tokens[i])
        /\ \A k \in (i + 1)..(j - 1) : ~IsEndA(tokens[k])}

\* the closing anchor tags that close a link
Closers(tokens) ==
    {j \in 1..Len(tokens) : IsEndA(tokens[j]) /\ Openers(tokens, j) # {}}

RECURSIVE TextBetween(_, _, _)
\* the concatenation of the text tokens after position i and before position j
TextBetween(tokens, i, j) ==
    IF i + 1 >= j
    THEN ""
    ELSE (IF tokens[i + 1].type = "Text" THEN tokens[i + 1].Data ELSE "")
             \o TextBetween(tokens, i + 1, j)

\* the link the closing anchor tag at j closes: that of the last start tag
\* with href before it
LinkAt(tokens, j) ==
    LET i == CHOOSE o \in Openers(tokens, j) : \A p \in Openers(tokens, j) : p <= o
    IN  [Link |-> HrefOf(tokens[i]), Text |-> TextBetween(tokens, i, j)]

\* the links of a text, in document order
ExpectedLinks(tokens) ==
    LET closers == Closers(tokens) IN
    [n \in 1..Cardinality(closers) |->
        LinkAt(tokens, CHOOSE j \in closers :
                           Cardinality({k \in closers : k <= j}) = n)]

\* C30: with CollectLinks set, FromHTML reports the links in document order,
\* one per closing anchor tag that follows an anchor start tag carrying href,
\* each with the text tokens between the two as its text; an anchor open at
\* the end of the input gives no link; CollectLinks is called at most once
\* and never with an empty list; the text returned is the same whether or not
\* CollectLinks is set.
C30_LinksCollected ==
    lib.op = "FromHTML" =>
        /\ lib.collected =
               IF lib.collect /\ ExpectedLinks(lib.tokens) # <<>>
               THEN <<ExpectedLinks(lib.tokens)>>
               ELSE <<>>
        /\ Len(lib.collected) <= 1
        /\ \A n \in 1..Len(lib.collected) : lib.collected[n] # <<>>
        /\ lib.out = FromHTML(lib.tokens, ~lib.collect).out

\* a link whose text is two text tokens, reported in one call
C30_Witness ==
    /\ lib.op = "FromHTML"
    /\ lib.collect
    /\ lib.collected = << <<[Link |-> "u", Text |-> "xy"]>> >>
    /\ lib.out = "xy"

\* an anchor open at the end of the input: nothing is reported
C30_OpenAnchor ==
    /\ lib.op = "FromHTML"
    /\ lib.collect
    /\ Len(lib.tokens) = 2
    /\ IsHrefStart(lib.tokens[1])
    /\ lib.tokens[2].type = "Text"
    /\ lib.collected = <<>>

=============================================================================
